---- MODULE Spec2Model ----
(***************************************************************************)
(* Model of the elevator-bank controller: the ElevatorIO state machine,    *)
(* the ElevatorRoute queue, the travel strategies with their estimation,   *)
(* the Elevator coordinator and the ElevatorService dispatcher.            *)
(*                                                                         *)
(* Time is counted in units of 1000 ms.  A handler (a command, a timer     *)
(* callback, the synchronous part of an async function) runs to completion *)
(* and is one action; the listeners it calls synchronously are part of it. *)
(* A JavaScript value that may be undefined is a sequence of length 0 or 1.*)
(***************************************************************************)
EXTENDS Integers, Sequences, FiniteSets, TLC

VARIABLES
    now,        \* Date.now()
    elevators,  \* ElevatorId -> Elevator object (route, io, listeners)
    bank,       \* ElevatorService: ids, the keys of its Map in insertion order,
                \* and emitted, what its last addElevator/removeElevator emitted
    calls,      \* ElevatorService.addRide calls suspended at their await
    hook,       \* a listener a client registered on the IO: <<>> or <<[ev, cmd]>>
    options,    \* the AppOptions the service was constructed with
    steps,      \* how many operations clients have called so far
    last        \* the operation the last action ran, with its outcome

vars == <<now, elevators, bank, calls, hook, options, steps, last>>

----------------------------------------------------------------------------
(* The AppOptions the program is configured with here: two time units per  *)
(* floor, doors open for three, estimates up to twelve, floors -1 to 1.     *)

TRAVEL_TIME_PER_FLOOR == 2
DOOR_OPEN_TIME == 3
ESTIMATION_LIMIT == 12
MIN_FLOOR == -1
MAX_FLOOR == 1
INITIAL_FLOOR == 0

(* Bounds of the model.                                                    *)
MaxTime == 8        \* the clock stops here
MaxCmds == 4        \* client commands issued to one IO in the IO specification
MaxReentry == 1     \* nesting depth up to which the client's listener reacts
MaxOps == 2         \* client calls made to the service and its elevators

Floors == MIN_FLOOR..MAX_FLOOR
None == <<>>
Some(x) == <<x>>

Abs(x) == IF x < 0 THEN -x ELSE x

----------------------------------------------------------------------------
(* ElevatorStates (types.ts) and the state the IO holds.                   *)

IDLE == "idle"
MOVING_UP == "movingUp"
MOVING_DOWN == "movingDown"
DOORS_OPEN == "doorsOpen"

IdleState(f, t) == [type |-> IDLE, atFloor |-> f, startTime |-> t]
MovingState(ty, from, to, t, due) ==
    [type |-> ty, fromFloor |-> from, toFloor |-> to, startTime |-> t, dueTime |-> due]
DoorsOpenState(f, t, due) ==
    [type |-> DOORS_OPEN, atFloor |-> f, startTime |-> t, dueTime |-> due]

(* getState('atFloor'): undefined in the two moving states.                *)
GetStateAtFloor(st) ==
    IF st.type \in {IDLE, DOORS_OPEN} THEN Some(st.atFloor) ELSE None

(* An Elevator object as constructed: empty route, IO idle at the initial  *)
(* floor, no listener, no timer.  emitted is the events emitted during the *)
(* last handler, in emission order; threw is set by a command that throws. *)
(* vetoes is the floors its strategy's checkIfRideIsVetoed refuses to      *)
(* serve (empty for the strategies that do not define the hook).           *)
NewElevator(t, strategy, vetoes) ==
    [ strategy |-> strategy,
      vetoes  |-> vetoes,
      route   |-> <<>>,
      state   |-> IdleState(INITIAL_FLOOR, t),
      timers  |-> <<>>,       \* the pending setTimeout callbacks of this IO
      timeout |-> None,       \* ElevatorIO.timeout: the handle it holds
      running |-> FALSE,      \* the decision step listens to 'idle'
      relay   |-> FALSE,      \* the service's re-emitter listens to 'change'
      emitted |-> <<>>,
      threw   |-> FALSE ]

----------------------------------------------------------------------------
(* Floors.ts.  A number a caller passes in is given in halves (h stands    *)
(* for h/2), so that a non-integer can be passed: h odd.                   *)

isFloor(h) == h % 2 = 0
FloorOf(h) == h \div 2

(* validateFloor that checks no upper bound.                               *)
validateFloor_NoMax(h, ranged) ==
    IF ~isFloor(h) THEN "InvalidFloorError"
    ELSE IF ranged /\ FloorOf(h) < MIN_FLOOR THEN "InvalidFloorError"
    ELSE "ok"

(* validateFloor(floor, range): the error it throws, or "ok".              *)
validateFloor(h, ranged) ==
    IF ~isFloor(h) THEN "InvalidFloorError"
    ELSE IF ranged /\ FloorOf(h) < MIN_FLOOR THEN "InvalidFloorError"
    ELSE IF ranged /\ FloorOf(h) > MAX_FLOOR THEN "InvalidFloorError"
    ELSE "ok"

(* validateFloors that does not look at the dropoff.                      *)
validateFloors_PickupOnly(hp, hd) == validateFloor(hp, TRUE)

(* validateFloors(pickup, dropoff, range); dropoff is <<>> when undefined. *)
validateFloors(hp, hd) ==
    IF validateFloor(hp, TRUE) # "ok" THEN validateFloor(hp, TRUE)
    ELSE IF hd # None THEN validateFloor(hd[1], TRUE)
    ELSE "ok"

----------------------------------------------------------------------------
(* ElevatorRoute: the Map as the sequence of its entries in insertion      *)
(* order.  A Floor key has cf = 0 and carries its RouteItem; a             *)
(* ConditionalFloor key has cf > 0, the identity of the tag.               *)

ConditionalFloor(f, id) == [floor |-> f, cf |-> id]
RouteItem(f) ==
    [floor |-> f, cf |-> 0, visitAfter |-> <<>>, deleteOnVisit |-> <<>>, requestCount |-> 1]

IsFloorKey(e) == e.cf = 0

RouteLength(route) == Len(route)

shouldVisit(route, f) == \E i \in 1..Len(route) : IsFloorKey(route[i]) /\ route[i].floor = f

IndexOfFloor(route, f) ==
    CHOOSE i \in 1..Len(route) : IsFloorKey(route[i]) /\ route[i].floor = f

RouteFirst(route) == IF Len(route) = 0 THEN None ELSE Some(route[1].floor)

RouteToArray(route) == [i \in 1..Len(route) |-> route[i].floor]

SeqRange(s) == {s[i] : i \in 1..Len(s)}

(* new ConditionalFloor(): an identity no tag of this route has.           *)
UsedTags(route) ==
    {route[i].cf : i \in 1..Len(route)}
    \cup UNION {{c.cf : c \in SeqRange(route[i].visitAfter) \cup SeqRange(route[i].deleteOnVisit)} :
                  i \in {j \in 1..Len(route) : IsFloorKey(route[j])}}
FreshTag(route) == CHOOSE id \in 1..(Cardinality(UsedTags(route)) + 1) : id \notin UsedTags(route)

(* The same, but a floor that is requested again goes to the end.          *)
RequestFloor_MoveToEnd(route, f) ==
    IF shouldVisit(route, f)
    THEN Append(SelectSeq(route, LAMBDA e : ~(IsFloorKey(e) /\ e.floor = f)),
                [route[IndexOfFloor(route, f)] EXCEPT !.requestCount = @ + 1])
    ELSE Append(route, RouteItem(f))

(* The same without requestAgain().                                        *)
RequestFloor_NoCount(route, f) ==
    IF shouldVisit(route, f) THEN route ELSE Append(route, RouteItem(f))

(* route.get(pickup) ?? set(pickup, new RouteItem), else requestAgain().   *)
RequestFloor(route, f) ==
    IF shouldVisit(route, f)
    THEN [route EXCEPT ![IndexOfFloor(route, f)].requestCount = @ + 1]
    ELSE Append(route, RouteItem(f))

(* addRide that queues the dropoff as a floor at once, with no tag.        *)
addRide_DropoffAtOnce(route, pickup, dropoff) ==
    IF dropoff = None THEN RequestFloor(route, pickup)
    ELSE RequestFloor(RequestFloor(route, pickup), dropoff[1])

(* ElevatorRoute.addRide(pickup, dropoff?) on validated floors.            *)
(* An addRide that queues the tag without telling the pickup about it.     *)
addRide_Unreferenced(route, pickup, dropoff) ==
    IF dropoff = None THEN RequestFloor(route, pickup)
    ELSE Append(RequestFloor(route, pickup),
                ConditionalFloor(dropoff[1], FreshTag(RequestFloor(route, pickup))))

addRide(route, pickup, dropoff) ==
    LET r1 == RequestFloor(route, pickup)
    IN IF dropoff = None THEN r1
       ELSE LET cf == ConditionalFloor(dropoff[1], FreshTag(r1))
                i  == IndexOfFloor(r1, pickup)
            IN Append([r1 EXCEPT ![i].visitAfter = Append(@, cf)], cf)

(* visitNow that leaves the tags waiting on the floor as they are.         *)
UpgradeTags_Skip(route, tags, k) == route

(* The loop of visitNow over item.visitAfter, from its k-th tag on.        *)
RECURSIVE UpgradeTags(_, _, _)
UpgradeTags(route, tags, k) ==
    IF k > Len(tags) THEN route
    ELSE LET r1 == RequestFloor(route, tags[k].floor)
             i  == IndexOfFloor(r1, tags[k].floor)
         IN UpgradeTags([r1 EXCEPT ![i].deleteOnVisit = Append(@, tags[k])], tags, k + 1)

(* ElevatorRoute.visitNow(floor): the route afterwards.                    *)
(* A visit that removes the floor and leaves the tags of its deleteOnVisit *)
(* in the queue.                                                           *)
visitNow_KeepTags(route, f) ==
    IF ~shouldVisit(route, f) THEN route
    ELSE LET Delete(r1) == SelectSeq(r1, LAMBDA e : ~(IsFloorKey(e) /\ e.floor = f))
         IN Delete(UpgradeTags(route, route[IndexOfFloor(route, f)].visitAfter, 1))

visitNow(route, f) ==
    IF ~shouldVisit(route, f) THEN route
    ELSE LET item == route[IndexOfFloor(route, f)]
             Delete(r1) ==
                 LET dels == SeqRange(r1[IndexOfFloor(r1, f)].deleteOnVisit)
                     Keep(e) == ~(e \in dels) /\ ~(IsFloorKey(e) /\ e.floor = f)
                 IN SelectSeq(r1, Keep)
         IN Delete(UpgradeTags(route, item.visitAfter, 1))

(* new ElevatorRoute(routeToCopy): every key as is, every RouteItem through *)
(* RouteItem.copy(), which takes floor, visitAfter and requestCount.        *)
RouteItemCopy(item) ==
    [floor |-> item.floor, cf |-> 0, visitAfter |-> item.visitAfter,
     deleteOnVisit |-> <<>>, requestCount |-> item.requestCount]
RouteCopy(route) ==
    [i \in 1..Len(route) |-> IF IsFloorKey(route[i]) THEN RouteItemCopy(route[i]) ELSE route[i]]

----------------------------------------------------------------------------
(* Strategy.getNextFloor and getNrFloorsToMove (the same in InsertOrder    *)
(* and StopEnRoute).                                                       *)

getNextFloor(route, currentFloor) ==
    IF RouteFirst(route) = None \/ RouteFirst(route) = Some(currentFloor)
    THEN None ELSE RouteFirst(route)

(* A strategy that has the elevator move all the way in one command.       *)
getNrFloorsToMove_AllTheWay(route, currentFloor) ==
    IF getNextFloor(route, currentFloor) = None THEN 0
    ELSE getNextFloor(route, currentFloor)[1] - currentFloor

getNrFloorsToMove(route, currentFloor) ==
    IF getNextFloor(route, currentFloor) = None THEN 0
    ELSE IF getNextFloor(route, currentFloor)[1] > currentFloor THEN 1 ELSE -1

----------------------------------------------------------------------------
(* The StopEarly callbacks, as the state their closures hold.              *)
(*   "none":     no callback was passed;                                   *)
(*   "estimate": the callback of estimatePickupDropoffTime: estimatedTime  *)
(*               (nan when it is NaN) and last (<<>> when undefined);      *)
(*   "batch":    wrappedStopEarly of batchedGetOrderedStops around inner;  *)
(*   "count":    the callback of the tests, which counts its calls and     *)
(*               returns true from call number limit on (never when limit  *)
(*               is <<>>, as jest.fn().mockReturnValue(false)); calls is   *)
(*               the stops it was called with, as the mock records them.   *)

batchSize == 10
maxIterations == 10000

NoStopEarly == [kind |-> "none"]
EstimateStopEarly(currentFloor) ==
    [kind |-> "estimate", nan |-> FALSE, estimatedTime |-> 0, last |-> currentFloor]
CountStopEarly(limit) ==
    [kind |-> "count", callCount |-> 0, limit |-> limit, calls |-> <<>>]
WrappedStopEarly(inner, currentFloor) ==
    [kind |-> "batch", inner |-> inner, n |-> 0, done |-> FALSE,
     currentFloor |-> currentFloor, stops |-> <<>>]

(* estimatedTime < limit and estimatedTime > limit, false for NaN.         *)
(* An estimate that is returned whatever it came to.                       *)
UnderLimit_Always(cb) == TRUE

UnderLimit(cb) == ~cb.nan /\ cb.estimatedTime < ESTIMATION_LIMIT
OverLimit(cb) == ~cb.nan /\ cb.estimatedTime > ESTIMATION_LIMIT

(* stopEarly?.(stop, stops): the callback's state afterwards and what it   *)
(* returned.                                                               *)
RECURSIVE CallStopEarly(_, _)
CallStopEarly(cb, stop) ==
    IF cb.kind = "none" THEN [cb |-> cb, ret |-> FALSE]
    ELSE IF cb.kind = "estimate" THEN
        LET c1 == IF cb.last = None \/ cb.nan
                  THEN [cb EXCEPT !.nan = TRUE, !.last = Some(stop)]
                  ELSE [cb EXCEPT !.estimatedTime = @ + DOOR_OPEN_TIME
                                       + Abs(stop - cb.last[1]) * TRAVEL_TIME_PER_FLOOR,
                                  !.last = Some(stop)]
        IN [cb |-> c1, ret |-> OverLimit(c1)]
    ELSE IF cb.kind = "count" THEN
        LET c1 == [cb EXCEPT !.callCount = @ + 1, !.calls = Append(@, stop)]
        IN [cb |-> c1, ret |-> c1.limit # None /\ c1.callCount >= c1.limit[1]]
    ELSE
        LET c1 == [cb EXCEPT !.currentFloor = Some(stop), !.stops = Append(@, stop)]
        IN IF c1.n + 1 >= batchSize
           THEN [cb |-> [c1 EXCEPT !.n = 0], ret |-> TRUE]
           ELSE LET in == CallStopEarly(c1.inner, stop)
                    c2 == [c1 EXCEPT !.n = @ + 1, !.inner = in.cb]
                IN IF in.ret THEN [cb |-> [c2 EXCEPT !.done = TRUE], ret |-> TRUE]
                   ELSE [cb |-> c2, ret |-> FALSE]

----------------------------------------------------------------------------
(* getOrderedStops.  The for-of over the route follows the Map iterator:   *)
(* pos entries of the route lie behind it; entries deleted ahead of it are *)
(* skipped and entries appended are reached.                               *)

Key(e) == <<e.floor, e.cf>>
Keys(route) == {Key(route[i]) : i \in 1..Len(route)}
(* An iterator that keeps its index when entries before it are deleted.    *)
Passed_KeepIndex(old, cur, new) == cur

Passed(old, cur, new) == Cardinality({j \in 1..cur : Key(old[j]) \in Keys(new)})

(* A strategy that does not add its target to the route.                  *)
WithTarget_AsIs(route, targetFloor) == route

WithTarget(route, targetFloor) ==
    IF targetFloor = None THEN route ELSE addRide(route, targetFloor[1], None)

RECURSIVE InsertOrderLoop(_, _, _, _, _)
InsertOrderLoop(route, pos, stops, cb, targetFloor) ==
    IF pos >= Len(route) THEN [route |-> route, stops |-> stops, cb |-> cb]
    ELSE LET nextStop == route[pos + 1].floor
             Visited(r2, c) ==
                 IF c.ret \/ targetFloor = Some(nextStop)
                 THEN [route |-> r2, stops |-> Append(stops, nextStop), cb |-> c.cb]
                 ELSE InsertOrderLoop(r2, Passed(route, pos + 1, r2), Append(stops, nextStop),
                                      c.cb, targetFloor)
         IN Visited(visitNow(route, nextStop), CallStopEarly(cb, nextStop))

(* InsertOrder.getOrderedStops(route, _, targetFloor, stopEarly).          *)
InsertOrderStops(route, currentFloor, targetFloor, cb) ==
    InsertOrderLoop(WithTarget(route, targetFloor), 0, <<>>, cb, targetFloor)

(* range(start, end) of shared/util/arrays.ts.                             *)
range(start, end) ==
    IF start < end THEN [i \in 1..(end - start + 1) |-> start + i - 1]
    ELSE [i \in 1..(start - end + 1) |-> start - i + 1]

(* The inner loop of StopEnRoute over range(currentFloor, nextStop), from  *)
(* its k-th floor on; brk when it left by break outer.                     *)
RECURSIVE StopEnRouteInner(_, _, _, _, _, _)
StopEnRouteInner(route, rng, k, stops, cb, targetFloor) ==
    IF k > Len(rng) THEN [route |-> route, stops |-> stops, cb |-> cb, brk |-> FALSE]
    ELSE IF ~shouldVisit(route, rng[k])
    THEN StopEnRouteInner(route, rng, k + 1, stops, cb, targetFloor)
    ELSE LET Visited(r2, c) ==
                 IF c.ret \/ targetFloor = Some(rng[k])
                 THEN [route |-> r2, stops |-> Append(stops, rng[k]), cb |-> c.cb, brk |-> TRUE]
                 ELSE StopEnRouteInner(r2, rng, k + 1, Append(stops, rng[k]), c.cb, targetFloor)
         IN Visited(visitNow(route, rng[k]), CallStopEarly(cb, rng[k]))

RECURSIVE StopEnRouteLoop(_, _, _, _, _, _)
StopEnRouteLoop(route, pos, currentFloor, stops, cb, targetFloor) ==
    IF pos >= Len(route) THEN [route |-> route, stops |-> stops, cb |-> cb]
    ELSE LET nextStop == route[pos + 1].floor
             \* range(undefined, n) is empty: undefined < n and undefined >= n are false
             rng == IF currentFloor = None THEN <<>> ELSE range(currentFloor[1], nextStop)
             Ranged(in) ==
                 IF in.brk THEN [route |-> in.route, stops |-> in.stops, cb |-> in.cb]
                 ELSE StopEnRouteLoop(in.route, Passed(route, pos + 1, in.route),
                                      IF rng = <<>> THEN currentFloor ELSE Some(nextStop),
                                      in.stops, in.cb, targetFloor)
         IN Ranged(StopEnRouteInner(route, rng, 1, stops, cb, targetFloor))

(* A StopEnRoute that goes to each key without a stop on its way.          *)
StopEnRouteStops_Direct(route, currentFloor, targetFloor, cb) ==
    InsertOrderStops(route, currentFloor, targetFloor, cb)

(* StopEnRoute.getOrderedStops(route, currentFloor, targetFloor, stopEarly). *)
StopEnRouteStops(route, currentFloor, targetFloor, cb) ==
    StopEnRouteLoop(WithTarget(route, targetFloor), 0, currentFloor, <<>>, cb, targetFloor)

getOrderedStops(strategy, route, currentFloor, targetFloor, cb) ==
    IF strategy = "InsertOrder" THEN InsertOrderStops(route, currentFloor, targetFloor, cb)
    ELSE StopEnRouteStops(route, currentFloor, targetFloor, cb)

(* slice(-10) of the stops, as the set of its values, and its length.     *)
TailLength(stops) == IF Len(stops) < 10 THEN Len(stops) ELSE 10
TailValues(stops) == {stops[i] : i \in (Len(stops) - TailLength(stops) + 1)..Len(stops)}

(* The while loop of batchedGetOrderedStops; cb is wrappedStopEarly.  An   *)
(* iteration that visits nothing leaves the closure and the keys of the    *)
(* route as they were (only the target's requestCount grows), so it is     *)
(* repeated until iterationCount passes maxIterations and the loop throws: *)
(* that run of iterations is taken in one step.                            *)
NoProgress(route, cb, r) ==
    r.cb = cb /\ [i \in 1..Len(r.route) |-> Key(r.route[i])] = [i \in 1..Len(route) |-> Key(route[i])]

(* An iteration that appends stops, not all of them the floor it ends at,  *)
(* and leaves the keys of the route and the rest of the closure as they    *)
(* were is followed by iterations that append the same stops again: the    *)
(* guard on the tail never holds, and the loop throws when iterationCount  *)
(* passes maxIterations.  That run of iterations is taken in one step too. *)
Repeats(route, cb, r) ==
    /\ [r.cb EXCEPT !.stops = cb.stops] = cb
    /\ [i \in 1..Len(r.route) |-> Key(r.route[i])] = [i \in 1..Len(route) |-> Key(route[i])]
    /\ Len(r.cb.stops) > Len(cb.stops)
    /\ SubSeq(r.cb.stops, 1, Len(cb.stops)) = cb.stops
    /\ \E i \in (Len(cb.stops) + 1)..Len(r.cb.stops) : Some(r.cb.stops[i]) # r.cb.currentFloor

RECURSIVE BatchLoop(_, _, _, _, _)
BatchLoop(strategy, route, cb, targetFloor, iterationCount) ==
    IF cb.done \/ cb.currentFloor = targetFloor \/ RouteLength(route) = 0
    THEN [route |-> route, stops |-> cb.stops, cb |-> cb.inner, threw |-> FALSE, yields |-> TRUE]
    ELSE LET Batch(r) ==
                 LET stuck == /\ TailLength(r.cb.stops) > 1
                              /\ \A x \in TailValues(r.cb.stops) : Some(x) = r.cb.currentFloor
                 IN IF \/ stuck \/ iterationCount + 1 > maxIterations
                       \/ NoProgress(route, cb, r) \/ Repeats(route, cb, r)
                    THEN [route |-> r.route, stops |-> r.cb.stops, cb |-> r.cb.inner,
                          threw |-> TRUE, yields |-> TRUE]
                    ELSE BatchLoop(strategy, r.route, r.cb, targetFloor, iterationCount + 1)
         IN Batch(getOrderedStops(strategy, route, cb.currentFloor, targetFloor, cb))

batchedGetOrderedStops(strategy, route, currentFloor, targetFloor, cb) ==
    IF RouteLength(route) <= batchSize
    THEN LET Unbatched(r) ==
                 [route |-> r.route, stops |-> r.stops, cb |-> r.cb, threw |-> FALSE, yields |-> FALSE]
         IN Unbatched(getOrderedStops(strategy, route, currentFloor, targetFloor, cb))
    ELSE BatchLoop(strategy, route, WrappedStopEarly(cb, currentFloor), targetFloor, 0)

(* Strategy.estimatePickupDropoffTime: value is the number returned (-1    *)
(* for no estimate), threw when a batched run threw, yields when a batched *)
(* run gave the thread to the event loop.                                  *)
estimatePickupDropoffTime(strategy, routeCopy, currentFloor, pickupFloor, dropoffFloor) ==
    LET cb0 == EstimateStopEarly(currentFloor)
        Estimate(p1, p2) ==
            [value  |-> IF UnderLimit(p2.cb) /\ ~p2.threw THEN p2.cb.estimatedTime ELSE -1,
             threw  |-> p2.threw,
             yields |-> p1.yields \/ p2.yields,
             route  |-> p2.route,
             \* estimatedTime at the return: the number it holds, or NaN
             time   |-> p2.cb.estimatedTime,
             nan    |-> p2.cb.nan]
        \* dropoffFloor && ...: undefined and floor 0 are both falsy
        Dropoff(p1) ==
            Estimate(p1, IF /\ ~p1.threw /\ dropoffFloor # None /\ dropoffFloor # Some(0)
                            /\ UnderLimit(p1.cb)
                         THEN batchedGetOrderedStops(strategy, p1.route, Some(pickupFloor),
                                                     dropoffFloor, p1.cb)
                         ELSE p1)
    IN Dropoff(IF currentFloor = Some(pickupFloor)
               THEN [route |-> routeCopy, cb |-> [cb0 EXCEPT !.estimatedTime = @ + DOOR_OPEN_TIME],
                     threw |-> FALSE, yields |-> FALSE]
               ELSE batchedGetOrderedStops(strategy, routeCopy, currentFloor, Some(pickupFloor), cb0))

----------------------------------------------------------------------------
(* ElevatorIO and the listeners its events reach.  Every operator takes    *)
(* the Elevator object w and yields it as the handler leaves it.  d is the *)
(* depth of listener nesting.                                              *)

RemoveOne(s, x) ==
    IF \E i \in 1..Len(s) : s[i] = x
    THEN LET k == CHOOSE i \in 1..Len(s) : s[i] = x /\ \A j \in 1..(i - 1) : s[j] # x
         IN [i \in 1..(Len(s) - 1) |-> IF i < k THEN s[i] ELSE s[i + 1]]
    ELSE s

(* setFutureState that sets the new timer without clearing the old one.    *)
setFutureState_NoClear(w, st, delay, replaceExisting) ==
    LET timer == [due |-> now + delay, state |-> st]
    IN IF w.timeout # None /\ ~replaceExisting THEN w
       ELSE [w EXCEPT !.timers = Append(@, timer), !.timeout = Some(timer)]

(* ElevatorIO.setFutureState(state, delay, replaceExisting).               *)
setFutureState(w, st, delay, replaceExisting) ==
    LET timer == [due |-> now + delay, state |-> st]
    IN IF w.timeout # None /\ ~replaceExisting THEN w
       ELSE LET cleared == IF w.timeout # None THEN RemoveOne(w.timers, w.timeout[1])
                           ELSE w.timers
            IN [w EXCEPT !.timers = Append(cleared, timer), !.timeout = Some(timer)]

setFutureIdleAtFloor(w, floor, delay, replaceExisting) ==
    setFutureState(w, [type |-> IDLE, atFloor |-> floor], delay, replaceExisting)

(* The service's listener on 'change' (addElevator): one event keyed by    *)
(* the elevator's id and one aggregated 'state' event.                     *)
Relay(w, id, ev) ==
    IF w.relay
    THEN [w EXCEPT !.emitted = @ \o << [src |-> "service", key |-> id, from |-> ev.from, to |-> ev.to],
                                       [src |-> "service", key |-> "state", elevator |-> id,
                                        from |-> ev.from, to |-> ev.to] >>]
    ELSE w

RECURSIVE setState(_, _, _, _), move(_, _, _, _), openDoors(_, _, _)
RECURSIVE tellElevatorWhatToDoNext(_, _, _, _), RunHook(_, _, _, _)

(* ElevatorIO.setState: store the state, emit it under its type, then emit *)
(* 'change' with from the old state and to this.state as it is by then.    *)
setState(w, id, st, d) ==
    LET oldState == w.state
        w1 == [w EXCEPT !.state = st,
                        !.emitted = Append(@, [src |-> "io", key |-> st.type, arg |-> st])]
        w2 == IF st.type = IDLE /\ w1.running
              THEN tellElevatorWhatToDoNext(w1, id, st, d) ELSE w1
        w3 == RunHook(w2, id, st.type, d)
        ev == [src |-> "io", key |-> "change", from |-> oldState, to |-> w3.state]
        w4 == Relay([w3 EXCEPT !.emitted = Append(@, ev)], id, ev)
    IN RunHook(w4, id, "change", d)

(* move that takes the travel time of one floor whatever n is.             *)
move_OneFloorTime(w, id, n, d) ==
    IF n = 0 THEN [w EXCEPT !.threw = TRUE]
    ELSE IF w.state.type # IDLE THEN [w EXCEPT !.threw = TRUE]
    ELSE LET toFloor    == w.state.atFloor + n
             travelTime == TRAVEL_TIME_PER_FLOOR
             type       == IF n > 0 THEN MOVING_UP ELSE MOVING_DOWN
             w1 == setState(w, id, MovingState(type, w.state.atFloor, toFloor, now,
                                               now + travelTime), d)
         IN setFutureIdleAtFloor(w1, toFloor, travelTime, FALSE)

(* move that does nothing.                                                 *)
move_Ignored(w, id, n, d) == w

(* move that accepts n = 0.                                                *)
move_ZeroAllowed(w, id, n, d) ==
    IF w.state.type # IDLE THEN [w EXCEPT !.threw = TRUE]
    ELSE LET toFloor    == w.state.atFloor + n
             travelTime == TRAVEL_TIME_PER_FLOOR * Abs(n)
             type       == IF n > 0 THEN MOVING_UP ELSE MOVING_DOWN
             w1 == setState(w, id, MovingState(type, w.state.atFloor, toFloor, now,
                                               now + travelTime), d)
         IN setFutureIdleAtFloor(w1, toFloor, travelTime, FALSE)

(* ElevatorIO.move(n).                                                     *)
move(w, id, n, d) ==
    IF n = 0 THEN [w EXCEPT !.threw = TRUE]
    ELSE IF w.state.type # IDLE THEN [w EXCEPT !.threw = TRUE]
    ELSE LET toFloor    == w.state.atFloor + n
             travelTime == TRAVEL_TIME_PER_FLOOR * Abs(n)
             type       == IF n > 0 THEN MOVING_UP ELSE MOVING_DOWN
             w1 == setState(w, id, MovingState(type, w.state.atFloor, toFloor, now,
                                               now + travelTime), d)
         IN setFutureIdleAtFloor(w1, toFloor, travelTime, FALSE)

(* openDoors that does nothing.                                            *)
openDoors_Ignored(w, id, d) == w

(* openDoors that does not ask for the pending timer to be replaced.       *)
openDoors_NoReplace(w, id, d) ==
    IF w.state.type # DOORS_OPEN /\ w.state.type # IDLE THEN [w EXCEPT !.threw = TRUE]
    ELSE LET w1 == setState(w, id, DoorsOpenState(w.state.atFloor, now, now + DOOR_OPEN_TIME), d)
         IN setFutureIdleAtFloor(w1, w1.state.atFloor, DOOR_OPEN_TIME, FALSE)

(* ElevatorIO.openDoors().                                                 *)
openDoors(w, id, d) ==
    IF w.state.type # DOORS_OPEN /\ w.state.type # IDLE THEN [w EXCEPT !.threw = TRUE]
    ELSE LET w1 == setState(w, id, DoorsOpenState(w.state.atFloor, now, now + DOOR_OPEN_TIME), d)
         IN setFutureIdleAtFloor(w1, w1.state.atFloor, DOOR_OPEN_TIME, TRUE)

(* Elevator.tellElevatorWhatToDoNext(state): the decision step.  What the  *)
(* commands throw is caught and logged.                                    *)
tellElevatorWhatToDoNext(w, id, st, d) ==
    IF shouldVisit(w.route, st.atFloor)
    THEN [openDoors([w EXCEPT !.route = visitNow(@, st.atFloor)], id, d + 1) EXCEPT !.threw = FALSE]
    ELSE IF RouteLength(w.route) > 0
    THEN [move(w, id, getNrFloorsToMove(w.route, st.atFloor), d + 1) EXCEPT !.threw = FALSE]
    ELSE w

(* A client's listener on event ev that issues a command from inside the   *)
(* event and catches what the command throws.                              *)
RunHook(w, id, ev, d) ==
    IF hook = None \/ d >= MaxReentry THEN w
    ELSE IF hook[1].ev # ev THEN w
    ELSE IF hook[1].cmd = "openDoors" THEN [openDoors(w, id, d + 1) EXCEPT !.threw = FALSE]
    ELSE [move(w, id, hook[1].n, d + 1) EXCEPT !.threw = FALSE]

(* The callback setFutureState gave to setTimeout, for pending timer k.    *)
WithStartTime(st) == IdleState(st.atFloor, now)
TimerCallback(w, id, k) ==
    LET timer == w.timers[k]
        w1 == [w EXCEPT !.timers = RemoveOne(@, timer), !.timeout = None, !.emitted = <<>>]
    IN setState(w1, id, WithStartTime(timer.state), 0)

----------------------------------------------------------------------------
(* Elevator.                                                               *)

ElevatorStart(w) == [w EXCEPT !.running = TRUE]

(* shutdown() that leaves the service's re-emitter on the IO.              *)
ElevatorShutdown_KeepRelay(w) == [w EXCEPT !.running = FALSE]

(* shutdown(): io.removeAllListeners() takes the decision step and the     *)
(* service's re-emitter off the IO; the pending timer stays.               *)
ElevatorShutdown(w) == [w EXCEPT !.running = FALSE, !.relay = FALSE]

checkIfRideIsVetoed(w, pickupFloor, dropoffFloor) ==
    pickupFloor \in w.vetoes \/ (dropoffFloor # None /\ dropoffFloor[1] \in w.vetoes)

isFree(w) == RouteLength(w.route) = 0 /\ w.state.type = IDLE

getRouteLength(w) == RouteLength(w.route)

DropoffOf(hd) == IF hd = None THEN None ELSE Some(FloorOf(hd[1]))

(* Elevator.addRide that adds the ride to the route twice.                 *)
ElevatorAddRide_Twice(w, id, hp, hd) ==
    IF validateFloors(hp, hd) # "ok" THEN [w EXCEPT !.threw = TRUE]
    ELSE IF checkIfRideIsVetoed(w, FloorOf(hp), DropoffOf(hd)) THEN w
    ELSE LET w1 == [w EXCEPT !.route = addRide(addRide(@, FloorOf(hp), DropoffOf(hd)),
                                               FloorOf(hp), DropoffOf(hd))]
         IN IF w1.state.type = IDLE
            THEN tellElevatorWhatToDoNext(w1, id, w1.state, 0)
            ELSE w1

(* Elevator.addRide(pickupFloor, dropoffFloor), the numbers in halves.     *)
ElevatorAddRide(w, id, hp, hd) ==
    IF validateFloors(hp, hd) # "ok" THEN [w EXCEPT !.threw = TRUE]
    ELSE IF checkIfRideIsVetoed(w, FloorOf(hp), DropoffOf(hd)) THEN w
    ELSE LET w1 == [w EXCEPT !.route = addRide(@, FloorOf(hp), DropoffOf(hd))]
         IN IF w1.state.type = IDLE
            THEN tellElevatorWhatToDoNext(w1, id, w1.state, 0)
            ELSE w1

(* A route whose copy() was handed to a strategy that left the copy as     *)
(* usedCopy, had the strategy been handed the route itself.                *)
RouteAfterCopyUsed_SameObject(route, usedCopy) == usedCopy

(* A route whose copy() was handed to a strategy that left the copy as     *)
(* usedCopy. The copy has a Map of its own, a RouteItem of its own for     *)
(* every floor with arrays of its own (the getters of the copied item      *)
(* slice), and shares with the route only its tags, whose fields are       *)
(* readonly: what the strategy does to the copy does not reach the route.  *)
RouteAfterCopyUsed(route, usedCopy) == route

(* Elevator.estimatePickupDropoffTime(pickupFloor, dropoffFloor): the      *)
(* record of the estimate holds the copy as the strategy left it.          *)
ElevatorEstimate(w, pickupFloor, dropoffFloor) ==
    estimatePickupDropoffTime(w.strategy, RouteCopy(w.route), GetStateAtFloor(w.state),
                              pickupFloor, dropoffFloor)

----------------------------------------------------------------------------
(* The scheduler: timers fire when due, the earliest first and in the      *)
(* order they were set; the clock advances only when no timer is due.  A   *)
(* suspended addRide call resumes as a microtask, before any timer, unless *)
(* it waits on setImmediate (call.yields).                                 *)

Snapshot(w) == [state |-> w.state, timers |-> w.timers, timeout |-> w.timeout, route |-> w.route]

MicrotasksPending == \E i \in 1..Len(calls) : ~calls[i].yields

TimerIsNext(id, k) ==
    /\ elevators[id].timers[k].due <= now
    /\ \A id2 \in DOMAIN elevators : \A j \in 1..Len(elevators[id2].timers) :
          elevators[id2].timers[j].due >= elevators[id].timers[k].due
    /\ \A j \in 1..(k - 1) : elevators[id].timers[j].due > elevators[id].timers[k].due

TimerFires(id) ==
    /\ ~MicrotasksPending
    /\ \E k \in 1..Len(elevators[id].timers) :
          /\ TimerIsNext(id, k)
          /\ elevators' = [elevators EXCEPT ![id] = TimerCallback(@, id, k)]
    /\ last' = [op |-> "timer", id |-> id, threw |-> FALSE, before |-> Snapshot(elevators[id])]
    /\ UNCHANGED <<now, bank, calls, hook, options, steps>>

Tick ==
    /\ ~MicrotasksPending
    /\ now < MaxTime
    /\ \A id \in DOMAIN elevators : \A k \in 1..Len(elevators[id].timers) :
          elevators[id].timers[k].due > now
    /\ now' = now + 1
    /\ last' = [op |-> "tick"]
    /\ UNCHANGED <<elevators, bank, calls, hook, options, steps>>

----------------------------------------------------------------------------
(* Specification SpecIO: one ElevatorIO under the commands of a client, a  *)
(* client's listener that issues a command from inside an event, and its   *)
(* timers.                                                                 *)

IOEvents == {IDLE, MOVING_UP, MOVING_DOWN, DOORS_OPEN, "change"}
Hooks == {[ev |-> ev, cmd |-> "openDoors", n |-> 0] : ev \in IOEvents}
         \cup {[ev |-> ev, cmd |-> "move", n |-> n] : ev \in IOEvents, n \in {-1, 1}}

InitIO ==
    /\ now = 0
    /\ elevators = [id \in {"io"} |-> NewElevator(0, "InsertOrder", {})]
    /\ bank = [ids |-> <<>>, emitted |-> <<>>]
    /\ calls = <<>>
    /\ hook \in {None} \cup {Some(h) : h \in Hooks}
    /\ options = [USE_FREE_FIRST |-> TRUE]
    /\ steps = 0
    /\ last = [op |-> "init"]

Done(w) == [w EXCEPT !.threw = FALSE]

ClientMove(n) ==
    /\ steps < MaxCmds
    /\ LET w == move([elevators["io"] EXCEPT !.emitted = <<>>], "io", n, 0)
       IN /\ elevators' = [elevators EXCEPT !["io"] = Done(w)]
          /\ last' = [op |-> "move", n |-> n, threw |-> w.threw,
                      before |-> Snapshot(elevators["io"])]
    /\ steps' = steps + 1
    /\ UNCHANGED <<now, bank, calls, hook, options>>

ClientOpenDoors ==
    /\ steps < MaxCmds
    /\ LET w == openDoors([elevators["io"] EXCEPT !.emitted = <<>>], "io", 0)
       IN /\ elevators' = [elevators EXCEPT !["io"] = Done(w)]
          /\ last' = [op |-> "openDoors", threw |-> w.threw,
                      before |-> Snapshot(elevators["io"])]
    /\ steps' = steps + 1
    /\ UNCHANGED <<now, bank, calls, hook, options>>

NextIO ==
    \/ \E n \in -2..2 : ClientMove(n)
    \/ ClientOpenDoors
    \/ TimerFires("io")
    \/ Tick

SpecIO == InitIO /\ [][NextIO]_vars

----------------------------------------------------------------------------
(* ElevatorService.                                                        *)

ElevatorIds == {"E1", "E2"}
Strategies == {"InsertOrder", "StopEnRoute"}
VetoChoices == {{}, {MAX_FLOOR}}

IsMember(id) == \E i \in 1..Len(bank.ids) : bank.ids[i] = id

(* The elevators of the Map, in its order, that do not veto the ride.      *)
Candidates(pickupFloor, dropoffFloor) ==
    SelectSeq(bank.ids, LAMBDA id : ~checkIfRideIsVetoed(elevators[id], pickupFloor, dropoffFloor))

(* find that returns the last free elevator instead of the first.          *)
FindFree_Last(cands) ==
    IF \E i \in 1..Len(cands) : isFree(elevators[cands[i]])
    THEN Some(cands[CHOOSE i \in 1..Len(cands) :
                      /\ isFree(elevators[cands[i]])
                      /\ \A j \in (i + 1)..Len(cands) : ~isFree(elevators[cands[j]])])
    ELSE None

(* elevators.find(elevator => elevator.isFree())                           *)
FindFree(cands) ==
    IF \E i \in 1..Len(cands) : isFree(elevators[cands[i]])
    THEN Some(cands[CHOOSE i \in 1..Len(cands) :
                      /\ isFree(elevators[cands[i]])
                      /\ \A j \in 1..(i - 1) : ~isFree(elevators[cands[j]])])
    ELSE None

(* Array.prototype.sort((a, b) => a.key - b.key): stable, ascending.       *)
RECURSIVE SortByKey(_)
SortByKey(s) ==
    IF Len(s) <= 1 THEN s
    ELSE LET x    == s[Len(s)]
             rest == SortByKey(SubSeq(s, 1, Len(s) - 1))
             k    == Cardinality({i \in 1..Len(rest) : rest[i].key <= x.key})
         IN SubSeq(rest, 1, k) \o <<x>> \o SubSeq(rest, k + 1, Len(rest))

(* The shortest wait with the filter letting the estimate -1 through.               *)
ShortestWait_NoFilter(cands, estimates) ==
    LET all == [i \in 1..Len(cands) |-> [elevator |-> cands[i], key |-> estimates[i].value]]
        sorted == SortByKey(all)
    IN IF Len(sorted) = 0 THEN None ELSE Some(sorted[1].elevator)

(* estimates.filter(({estimate}) => estimate > -1).sort(...)?.at(0)        *)
ShortestWait(cands, estimates) ==
    LET all == [i \in 1..Len(cands) |-> [elevator |-> cands[i], key |-> estimates[i].value]]
        sorted == SortByKey(SelectSeq(all, LAMBDA e : e.key > -1))
    IN IF Len(sorted) = 0 THEN None ELSE Some(sorted[1].elevator)

(* elevators.map(e => ({elevator, length: e.getRouteLength()})).sort(...)?.at(0) *)
ShortestRoute(cands) ==
    LET all == [i \in 1..Len(cands) |->
                   [elevator |-> cands[i], key |-> getRouteLength(elevators[cands[i]])]]
        sorted == SortByKey(all)
    IN IF Len(sorted) = 0 THEN None ELSE Some(sorted[1].elevator)

RemoveAt(s, i) == SubSeq(s, 1, i - 1) \o SubSeq(s, i + 1, Len(s))

Fresh(w) == [w EXCEPT !.emitted = <<>>]

(* ElevatorService.addRide up to its await: it throws, or returns the id   *)
(* of a free elevator, or is suspended with the estimates it asked for.    *)
(* The estimates are taken here: each is computed from the copy of the     *)
(* route and the floor read when estimatePickupDropoffTime is called.      *)
(* freePool is the array that find() searches for a free elevator.         *)
AddRideUpToAwait(hp, hd, freePool) ==
    /\ steps < MaxOps
    /\ steps' = steps + 1
    /\ UNCHANGED <<now, bank, hook, options>>
    /\ LET pickupFloor  == FloorOf(hp)
           dropoffFloor == DropoffOf(hd)
           cands == Candidates(pickupFloor, dropoffFloor)
           free  == IF options.USE_FREE_FIRST THEN FindFree(freePool) ELSE None
           op    == [op |-> "addRide", phase |-> "begin", pickup |-> hp, dropoff |-> hd]
       IN IF validateFloors(hp, hd) # "ok"
          THEN /\ last' = op @@ [outcome |-> validateFloors(hp, hd)]
               /\ UNCHANGED <<elevators, calls>>
          ELSE IF Len(cands) = 0
          THEN /\ last' = op @@ [outcome |-> "DomainError"]
               /\ UNCHANGED <<elevators, calls>>
          ELSE IF free # None
          THEN /\ elevators' = [elevators EXCEPT
                                  ![free[1]] = Done(ElevatorAddRide(Fresh(@), free[1], hp, hd))]
               /\ last' = op @@ [outcome |-> "returned", id |-> free[1], tier |-> "free"]
               /\ UNCHANGED calls
          ELSE LET Promised(e) == [value |-> e.value, threw |-> e.threw, yields |-> e.yields,
                                   time |-> e.time, nan |-> e.nan]
                   Pending(estimates) ==
                       /\ calls' = Append(calls,
                              [pickup |-> hp, dropoff |-> hd, candidates |-> cands,
                               estimates |-> [i \in 1..Len(cands) |-> Promised(estimates[i])],
                               yields |-> \E i \in 1..Len(cands) : estimates[i].yields])
                       /\ elevators' = [id \in DOMAIN elevators |->
                              IF \E i \in 1..Len(cands) : cands[i] = id
                              THEN [elevators[id] EXCEPT !.route = RouteAfterCopyUsed(@,
                                        estimates[CHOOSE i \in 1..Len(cands) : cands[i] = id].route)]
                              ELSE elevators[id]]
               IN /\ Pending([i \in 1..Len(cands) |->
                              ElevatorEstimate(elevators[cands[i]], pickupFloor, dropoffFloor)])
                  /\ last' = op @@ [outcome |-> "pending"]

(* The service the App constructs (the one that keeps its elevators in a   *)
(* Map) searches the candidates for a free elevator.                       *)
AddRideBegin(hp, hd) ==
    AddRideUpToAwait(hp, hd, Candidates(FloorOf(hp), DropoffOf(hd)))

(* The ElevatorService that is constructed with an array of elevators      *)
(* searches this.elevators, the whole array.                               *)
ArrayAddRideBegin(hp, hd) ==
    AddRideUpToAwait(hp, hd, bank.ids)

(* ElevatorService.addRide from its await on: Promise.all rejects when an  *)
(* estimation threw, else the ride goes to the shortest wait, else to the  *)
(* shortest route.                                                         *)
AddRideFinish(i) ==
    /\ i \in 1..Len(calls)
    /\ calls' = RemoveAt(calls, i)
    /\ UNCHANGED <<now, bank, hook, options, steps>>
    /\ LET c  == calls[i]
           op == [op |-> "addRide", phase |-> "finish", pickup |-> c.pickup,
                  dropoff |-> c.dropoff, call |-> c]
           shortestWait  == ShortestWait(c.candidates, c.estimates)
           shortestRoute == ShortestRoute(c.candidates)
           chosen == IF shortestWait # None THEN shortestWait ELSE shortestRoute
       IN IF \E k \in 1..Len(c.estimates) : c.estimates[k].threw
          THEN /\ last' = op @@ [outcome |-> "BUGBUG"]
               /\ UNCHANGED elevators
          ELSE /\ elevators' = [elevators EXCEPT
                    ![chosen[1]] = Done(ElevatorAddRide(Fresh(@), chosen[1], c.pickup, c.dropoff))]
               /\ last' = op @@ [outcome |-> "returned", id |-> chosen[1],
                                 tier |-> IF shortestWait # None THEN "wait" ELSE "route"]

(* ElevatorService.isRunning(): every elevator of the Map runs (true of an *)
(* empty Map).                                                             *)
ServiceIsRunning == \A i \in 1..Len(bank.ids) : elevators[bank.ids[i]].running

(* A client's listener on the service's 'availability' event that, for the *)
(* type of event it waits for, gives a ride to the elevator the event      *)
(* names.  It runs inside emit('availability', ...).                       *)
AvailabilityListener(w, id, type) ==
    IF hook = None THEN w
    ELSE IF hook[1].ev # "availability" \/ hook[1].type # type THEN w
    ELSE Done(ElevatorAddRide(Fresh(w), id, hook[1].n, None))

(* ElevatorService.addElevator(elevator) with one of the Elevator objects. *)
AddElevator(id) ==
    /\ steps < MaxOps
    /\ steps' = steps + 1
    /\ UNCHANGED <<now, calls, hook, options>>
    /\ last' = [op |-> "addElevator", id |-> id, wasMember |-> IsMember(id)]
    /\ IF IsMember(id) THEN UNCHANGED <<elevators, bank>>
       ELSE /\ bank' = [ids |-> Append(bank.ids, id),
                        emitted |-> <<[key |-> "availability", type |-> "added", elevator |-> id,
                                       state |-> elevators[id].state]>>]
            \* isRunning() is false exactly when some member, the new one included,
            \* does not run; start(true) leaves a running elevator as it is.  The
            \* 'change' listener is registered after 'availability' was emitted.
            /\ elevators' = [elevators EXCEPT
                  ![id] = [AvailabilityListener(ElevatorStart(@), id, "added") EXCEPT !.relay = TRUE]]

(* ElevatorService.removeElevator(id).                                     *)
RemoveElevator(id) ==
    /\ steps < MaxOps
    /\ steps' = steps + 1
    /\ UNCHANGED <<now, calls, hook, options>>
    /\ last' = [op |-> "removeElevator", id |-> id, wasMember |-> IsMember(id)]
    /\ IF ~IsMember(id) THEN UNCHANGED <<elevators, bank>>
       ELSE /\ elevators' = [elevators EXCEPT
                  ![id] = AvailabilityListener(ElevatorShutdown(@), id, "removed")]
            /\ bank' = [ids |-> SelectSeq(bank.ids, LAMBDA x : x # id),
                        emitted |-> <<[key |-> "availability", type |-> "removed",
                                       elevator |-> id]>>]

(* ElevatorService.start(): start(true) on every elevator of the Map.      *)
ServiceStart ==
    /\ steps < MaxOps
    /\ steps' = steps + 1
    /\ UNCHANGED <<now, bank, calls, hook, options>>
    /\ last' = [op |-> "start"]
    /\ elevators' = [id \in DOMAIN elevators |->
                        IF IsMember(id) THEN ElevatorStart(elevators[id]) ELSE elevators[id]]

(* ElevatorService.shutdown(): shutdown() on every elevator of the Map.    *)
ServiceShutdown ==
    /\ steps < MaxOps
    /\ steps' = steps + 1
    /\ UNCHANGED <<now, bank, calls, hook, options>>
    /\ last' = [op |-> "shutdown", before |-> [id \in DOMAIN elevators |-> Snapshot(elevators[id])]]
    /\ elevators' = [id \in DOMAIN elevators |->
                        IF IsMember(id) THEN ElevatorShutdown(elevators[id]) ELSE elevators[id]]

(* A client calls Elevator.addRide on one of the Elevator objects.         *)
DirectAddRide(id, hp, hd) ==
    /\ steps < MaxOps
    /\ steps' = steps + 1
    /\ UNCHANGED <<now, bank, calls, hook, options>>
    /\ LET w == ElevatorAddRide(Fresh(elevators[id]), id, hp, hd)
       IN /\ last' = [op |-> "Elevator.addRide", id |-> id, pickup |-> hp, dropoff |-> hd,
                      outcome |-> IF w.threw THEN validateFloors(hp, hd) ELSE "returned"]
          /\ elevators' = [elevators EXCEPT ![id] = IF w.threw THEN @ ELSE w]

----------------------------------------------------------------------------
(* Specification SpecBank: the service as the App constructs it, with its  *)
(* elevators added, under rides, direct rides, removals and re-additions,  *)
(* and the timers of the elevators.                                        *)

(* The numbers passed as floors, in halves: the rides between floors, and   *)
(* rides with the first integer below or above the range or a non-integer. *)
ValidRides ==
    {<<2 * p, None>> : p \in Floors} \cup {<<2 * p, Some(2 * d)>> : p \in Floors, d \in Floors}
InvalidNumbers == {2 * (MIN_FLOOR - 1), 2 * (MAX_FLOOR + 1), 2 * INITIAL_FLOOR + 1}
InvalidRides ==
    {<<h, None>> : h \in InvalidNumbers}
    \cup {<<2 * INITIAL_FLOOR, Some(h)>> : h \in InvalidNumbers}
RideInputs == ValidRides \cup InvalidRides
DirectInputs ==
    InvalidRides \cup {<<2 * MIN_FLOOR, Some(2 * MAX_FLOOR)>>, <<2 * MAX_FLOOR, None>>,
                       <<2 * INITIAL_FLOOR, None>>}

InitBank ==
    /\ now = 0
    /\ elevators \in {[id \in ElevatorIds |->
                          [NewElevator(0, strategy, vetoes[id]) EXCEPT !.running = TRUE, !.relay = TRUE]] :
                      strategy \in Strategies, vetoes \in [ElevatorIds -> VetoChoices]}
    /\ bank = [ids |-> <<"E1", "E2">>, emitted |-> <<>>]
    /\ calls = <<>>
    /\ hook = None
    /\ options \in {[USE_FREE_FIRST |-> b] : b \in BOOLEAN}
    /\ steps = 0
    /\ last = [op |-> "init"]

NextBank ==
    \/ \E r \in RideInputs : AddRideBegin(r[1], r[2])
    \/ \E i \in 1..Len(calls) : AddRideFinish(i)
    \/ \E id \in ElevatorIds : AddElevator(id)
    \/ \E id \in ElevatorIds : RemoveElevator(id)
    \/ \E id \in ElevatorIds, r \in DirectInputs : DirectAddRide(id, r[1], r[2])
    \/ \E id \in ElevatorIds : TimerFires(id)
    \/ Tick

SpecBank == InitBank /\ [][NextBank]_vars

----------------------------------------------------------------------------
(* Specification SpecBusy: the service of the App at a busy hour.  Its     *)
(* first elevator was given the same ride by LoadCount clients through     *)
(* Elevator.addRide before anything else happened, so that its route holds *)
(* more keys than a batch; the second elevator has no work.                *)

LoadCount == 9
LoadRides == {<<2 * MAX_FLOOR, Some(2 * MIN_FLOOR)>>, <<2 * INITIAL_FLOOR, Some(2 * MAX_FLOOR)>>}

RECURSIVE Loaded(_, _, _, _)
Loaded(w, id, r, n) ==
    IF n = 0 THEN w ELSE Loaded(Done(ElevatorAddRide(Fresh(w), id, r[1], r[2])), id, r, n - 1)

InitBusy ==
    /\ now = 0
    /\ hook = None
    /\ options \in {[USE_FREE_FIRST |-> b] : b \in BOOLEAN}
    /\ elevators \in {[id \in ElevatorIds |->
                          LET w == [NewElevator(0, strategy, {}) EXCEPT !.running = TRUE, !.relay = TRUE]
                          IN IF id = "E1" THEN Fresh(Loaded(w, id, r, LoadCount)) ELSE w] :
                      strategy \in Strategies, r \in LoadRides}
    /\ bank = [ids |-> <<"E1", "E2">>, emitted |-> <<>>]
    /\ calls = <<>>
    /\ steps = 0
    /\ last = [op |-> "init"]

NextBusy ==
    \/ \E r \in ValidRides : AddRideBegin(r[1], r[2])
    \/ \E i \in 1..Len(calls) : AddRideFinish(i)
    \/ \E id \in ElevatorIds : TimerFires(id)
    \/ Tick

SpecBusy == InitBusy /\ [][NextBusy]_vars

----------------------------------------------------------------------------
(* Specification SpecArrayBank: the ElevatorService that is given its      *)
(* elevators as an array at construction.  It has addRide only: it neither *)
(* starts the elevators nor listens to them, so whoever constructed them   *)
(* has started them or not.                                                *)

InitArrayBank ==
    /\ now = 0
    /\ elevators \in {[id \in ElevatorIds |->
                          [NewElevator(0, strategy, vetoes[id]) EXCEPT !.running = started]] :
                      strategy \in Strategies, vetoes \in [ElevatorIds -> VetoChoices],
                      started \in BOOLEAN}
    /\ bank = [ids |-> <<"E1", "E2">>, emitted |-> <<>>]
    /\ calls = <<>>
    /\ hook = None
    /\ options \in {[USE_FREE_FIRST |-> b] : b \in BOOLEAN}
    /\ steps = 0
    /\ last = [op |-> "init"]

NextArrayBank ==
    \/ \E r \in RideInputs : ArrayAddRideBegin(r[1], r[2])
    \/ \E i \in 1..Len(calls) : AddRideFinish(i)
    \/ \E id \in ElevatorIds : TimerFires(id)
    \/ Tick

SpecArrayBank == InitArrayBank /\ [][NextArrayBank]_vars

----------------------------------------------------------------------------
(* Specification SpecLife: the life cycle of the service.  The service is  *)
(* constructed empty and the Elevator objects are constructed, neither     *)
(* started nor listened to; a client adds and removes them, starts and     *)
(* shuts down the service, gives rides to the Elevator objects, and may    *)
(* listen to 'availability'.  LifeOps is how many more operations a run of *)
(* this specification takes than MaxOps.                                   *)

LifeOps == 2

LifeRide == 2 * MAX_FLOOR

AvailabilityHooks ==
    {[ev |-> "availability", type |-> t, cmd |-> "addRide", n |-> LifeRide] : t \in {"added", "removed"}}

InitLife ==
    /\ now = 0
    /\ elevators \in {[id \in ElevatorIds |-> NewElevator(0, strategy, {})] : strategy \in Strategies}
    /\ bank = [ids |-> <<>>, emitted |-> <<>>]
    /\ calls = <<>>
    /\ hook \in {None} \cup {Some(h) : h \in AvailabilityHooks}
    /\ options = [USE_FREE_FIRST |-> TRUE]
    /\ steps = 0 - LifeOps
    /\ last = [op |-> "init"]

NextLife ==
    \/ \E id \in ElevatorIds : AddElevator(id)
    \/ \E id \in ElevatorIds : RemoveElevator(id)
    \/ ServiceStart
    \/ ServiceShutdown
    \/ \E id \in ElevatorIds : DirectAddRide(id, LifeRide, None)
    \/ \E id \in ElevatorIds : TimerFires(id)
    \/ Tick

SpecLife == InitLife /\ [][NextLife]_vars

----------------------------------------------------------------------------
(* Specification SpecRoute: one ElevatorRoute, the public route of an      *)
(* Elevator object whose IO is left alone, under addRide, visitNow and     *)
(* InsertOrder.getOrderedStops called on the route itself.  The route      *)
(* takes any integer as a floor: validateFloor is called without a range.  *)

RouteFloors == {3, 4, 10, 13}

MaxRouteOps == 4

TheRoute == elevators["route"].route

InitRoute ==
    /\ now = 0
    /\ elevators = [id \in {"route"} |-> NewElevator(0, "InsertOrder", {})]
    /\ bank = [ids |-> <<>>, emitted |-> <<>>]
    /\ calls = <<>>
    /\ hook = None
    /\ options = [USE_FREE_FIRST |-> TRUE]
    /\ steps = 0
    /\ last = [op |-> "init"]

(* route.addRide(pickup, dropoff?)                                         *)
RouteAddRide(pickup, dropoff) ==
    /\ steps < MaxRouteOps
    /\ steps' = steps + 1
    /\ elevators' = [elevators EXCEPT !["route"].route = addRide(@, pickup, dropoff)]
    /\ last' = [op |-> "route.addRide", pickup |-> pickup, dropoff |-> dropoff, before |-> TheRoute]
    /\ UNCHANGED <<now, bank, calls, hook, options>>

(* route.visitNow(floor)                                                   *)
RouteVisitNow(floor) ==
    /\ steps < MaxRouteOps
    /\ steps' = steps + 1
    /\ elevators' = [elevators EXCEPT !["route"].route = visitNow(@, floor)]
    /\ last' = [op |-> "route.visitNow", floor |-> floor, before |-> TheRoute,
                ret |-> shouldVisit(TheRoute, floor)]
    /\ UNCHANGED <<now, bank, calls, hook, options>>

(* new InsertOrder().getOrderedStops(route, currentFloor) with neither a   *)
(* target floor nor a stopEarly callback.                                  *)
RouteOrderedStops(currentFloor) ==
    /\ steps < MaxRouteOps
    /\ steps' = steps + 1
    /\ LET RunOn(r) ==
               /\ elevators' = [elevators EXCEPT !["route"].route = r.route]
               /\ last' = [op |-> "getOrderedStops", currentFloor |-> currentFloor,
                           before |-> TheRoute, stops |-> r.stops]
       IN RunOn(getOrderedStops("InsertOrder", TheRoute, Some(currentFloor), None, NoStopEarly))
    /\ UNCHANGED <<now, bank, calls, hook, options>>

(* The route object a strategy is handed: the route itself, as the tests   *)
(* of the strategies do, a route.copy(), as Elevator.estimate...Time does, *)
(* or the copy it was handed before, as the estimate does for the dropoff. *)
RouteObjects == {"route", "copy()", "copy"}

(* The route handed over, and the object that holds it afterwards.         *)
HandedRoute(on) ==
    IF on = "route" THEN TheRoute
    ELSE IF on = "copy()" THEN RouteCopy(TheRoute)
    ELSE elevators["copy"].route

(* The floors a StopEnRoute that is given a target starts from: below all  *)
(* floors of the routes, and between them. InsertOrder does not read the   *)
(* floor it starts from.                                                   *)
StartFloors == {INITIAL_FLOOR, 10}

(* strategy.getOrderedStops(route, currentFloor, targetFloor?) without a   *)
(* stopEarly callback.                                                     *)
RouteStrategyStops(strategy, on, currentFloor, targetFloor) ==
    /\ steps < MaxRouteOps
    /\ steps' = steps + 1
    /\ LET RunOn(r) ==
               /\ elevators' = [elevators EXCEPT
                                  ![IF on = "route" THEN "route" ELSE "copy"].route = r.route]
               /\ last' = [op |-> "strategy.getOrderedStops", strategy |-> strategy, on |-> on,
                           currentFloor |-> currentFloor, targetFloor |-> targetFloor,
                           before |-> HandedRoute(on), stops |-> r.stops, after |-> r.route]
       IN RunOn(getOrderedStops(strategy, HandedRoute(on), Some(currentFloor), targetFloor,
                                NoStopEarly))
    /\ UNCHANGED <<now, bank, calls, hook, options>>

NextRoute ==
    \/ \E p \in RouteFloors : RouteAddRide(p, None)
    \/ \E p \in RouteFloors, d \in RouteFloors : RouteAddRide(p, Some(d))
    \/ \E f \in RouteFloors : RouteVisitNow(f)
    \/ \E f \in RouteFloors : RouteOrderedStops(f)

SpecRoute == InitRoute /\ [][NextRoute]_vars

----------------------------------------------------------------------------
(* A route and the copy of it that is handed to the strategies, which are  *)
(* run on the route, on a new copy of it, and on the copy again.           *)

InitStrategy ==
    /\ now = 0
    /\ elevators = [id \in {"route", "copy"} |-> NewElevator(0, "InsertOrder", {})]
    /\ bank = [ids |-> <<>>, emitted |-> <<>>]
    /\ calls = <<>>
    /\ hook = None
    /\ options = [USE_FREE_FIRST |-> TRUE]
    /\ steps = 0
    /\ last = [op |-> "init"]

NextStrategy ==
    \/ NextRoute
    \/ \E f \in RouteFloors : RouteStrategyStops("StopEnRoute", "route", f, None)
    \/ \E f \in StartFloors, t \in RouteFloors, on \in RouteObjects :
           RouteStrategyStops("StopEnRoute", on, f, Some(t))
    \/ \E t \in RouteFloors, on \in RouteObjects :
           RouteStrategyStops("InsertOrder", on, INITIAL_FLOOR, Some(t))

SpecStrategy == InitStrategy /\ [][NextStrategy]_vars

----------------------------------------------------------------------------
(* Specification SpecBatch: a route that a client fills, as the tests of   *)
(* the strategies do, with the floors 0..n-1, adds rides to and visits     *)
(* floors of, and then hands, itself or as a copy, to getOrderedStops or   *)
(* to batchedGetOrderedStops of a strategy, with or without a target and a *)
(* stopEarly callback.  The planner's run ends the client's use of the     *)
(* route.                                                                  *)

FillSizes == {9, 11, 21}
BatchFloors == {3, 12}

RECURSIVE Fill(_, _, _)
Fill(route, i, n) == IF i >= n THEN route ELSE Fill(addRide(route, i, None), i + 1, n)

(* for (let i = 0; i < n; i++) route.addRide(i), on an empty route.        *)
BatchFill(n) ==
    /\ steps < MaxRouteOps
    /\ TheRoute = <<>>
    /\ steps' = steps + 1
    /\ elevators' = [elevators EXCEPT !["route"].route = Fill(@, 0, n)]
    /\ last' = [op |-> "route.fill", n |-> n, before |-> TheRoute]
    /\ UNCHANGED <<now, bank, calls, hook, options>>

Callbacks == {NoStopEarly, CountStopEarly(None), CountStopEarly(Some(2))}

(* strategy.getOrderedStops (planner "sync") or, awaited to its end,       *)
(* strategy.batchedGetOrderedStops (planner "batched") on the route or on  *)
(* route.copy().                                                           *)
RunPlanner(planner, strategy, on, currentFloor, targetFloor, cb) ==
    /\ steps < MaxRouteOps
    /\ steps' = MaxRouteOps
    /\ LET Sync(r) == [route |-> r.route, stops |-> r.stops, cb |-> r.cb, threw |-> FALSE]
           RunOn(r) ==
               /\ elevators' = [elevators EXCEPT
                      !["route"].route = IF on = "route" THEN r.route ELSE @]
               /\ last' = [op |-> "planner", planner |-> planner, strategy |-> strategy,
                           on |-> on, currentFloor |-> currentFloor,
                           targetFloor |-> targetFloor, stopEarly |-> cb,
                           before |-> HandedRoute(on), stops |-> r.stops, after |-> r.route,
                           cb |-> r.cb, threw |-> r.threw]
       IN IF planner = "sync"
          THEN RunOn(Sync(getOrderedStops(strategy, HandedRoute(on), Some(currentFloor),
                                          targetFloor, cb)))
          ELSE RunOn(batchedGetOrderedStops(strategy, HandedRoute(on), Some(currentFloor),
                                            targetFloor, cb))
    /\ UNCHANGED <<now, bank, calls, hook, options>>

NextBatch ==
    \/ \E n \in FillSizes : BatchFill(n)
    \/ \E p \in BatchFloors : RouteAddRide(p, None)
    \/ \E p \in BatchFloors, d \in BatchFloors : RouteAddRide(p, Some(d))
    \/ \E f \in BatchFloors : RouteVisitNow(f)
    \/ \E strategy \in Strategies, on \in {"route", "copy()"}, f \in BatchFloors,
          t \in {None} \cup {Some(g) : g \in BatchFloors}, cb \in Callbacks :
           RunPlanner("sync", strategy, on, f, t, cb)
    \/ \E strategy \in Strategies, on \in {"route", "copy()"}, f \in BatchFloors,
          t \in {None} \cup {Some(g) : g \in BatchFloors}, cb \in Callbacks :
           RunPlanner("batched", strategy, on, f, t, cb)

SpecBatch == InitRoute /\ [][NextBatch]_vars

----------------------------------------------------------------------------
(* One elevator that was constructed and started, and is given rides by    *)
(* its client while its timers run.                                        *)

SoloOps == 1        \* the rides the one elevator is given beyond MaxOps

Solo == "E1"

InitSolo ==
    /\ now = 0
    /\ elevators \in {[id \in {Solo} |-> [NewElevator(0, strategy, {}) EXCEPT !.running = TRUE]] :
                      strategy \in Strategies}
    /\ bank = [ids |-> <<>>, emitted |-> <<>>]
    /\ calls = <<>>
    /\ hook = None
    /\ options = [USE_FREE_FIRST |-> TRUE]
    /\ steps = 0 - SoloOps
    /\ last = [op |-> "init"]

(* Time passes while a timer is pending and none is due.                   *)
Wait ==
    /\ ~MicrotasksPending
    /\ \E id \in DOMAIN elevators : Len(elevators[id].timers) > 0
    /\ \A id \in DOMAIN elevators : \A k \in 1..Len(elevators[id].timers) :
          elevators[id].timers[k].due > now
    /\ now' = now + 1
    /\ last' = [op |-> "tick"]
    /\ UNCHANGED <<elevators, bank, calls, hook, options, steps>>

NextSolo ==
    \/ \E r \in ValidRides : DirectAddRide(Solo, r[1], r[2])
    \/ TimerFires(Solo)
    \/ Wait

SpecSolo == InitSolo /\ [][NextSolo]_vars

(* A timer of the elevator is due.                                         *)
TimerIsDue == \E k \in 1..Len(elevators[Solo].timers) : elevators[Solo].timers[k].due <= now

(* Time passes, and the event loop runs a timer that is due: time and      *)
(* again none is due. (A timer that has run leaves none due, the delays    *)
(* being positive, so this is weak fairness of TimerFires.)                *)
FairSolo == SpecSolo /\ WF_vars(Wait) /\ []<>(~TimerIsDue)

----------------------------------------------------------------------------
(* One running elevator whose client never ceases to ask for the floor at  *)
(* which the doors are open.  The program reads the clock only to compute  *)
(* the times it stores, and compares none of them with a time stored       *)
(* earlier, so the clock is kept relative here: now stays 0 and time       *)
(* passing moves every stored time one unit into the past.  A behaviour    *)
(* with rides without end is then a cycle through finitely many states.    *)

Earlier(st) ==
    IF st.type = IDLE THEN [st EXCEPT !.startTime = @ - 1]
    ELSE [st EXCEPT !.startTime = @ - 1, !.dueTime = @ - 1]

(* One unit of time passes while a timer is pending and none is due.       *)
Elapse ==
    /\ Len(elevators[Solo].timers) > 0
    /\ \A k \in 1..Len(elevators[Solo].timers) : elevators[Solo].timers[k].due > now
    /\ elevators' = [elevators EXCEPT
          ![Solo].timers  = [k \in 1..Len(@) |-> [@[k] EXCEPT !.due = @ - 1]],
          ![Solo].timeout = IF @ = None THEN None ELSE Some([@[1] EXCEPT !.due = @ - 1]),
          ![Solo].state   = Earlier(@)]
    /\ last' = [op |-> "tick"]
    /\ UNCHANGED <<now, bank, calls, hook, options, steps>>

(* elevator.addRide(f) for the floor f at which the doors are open, when f *)
(* is not queued: one of any number of such calls.                         *)
HoldRide ==
    /\ elevators[Solo].state.type = DOORS_OPEN
    /\ ~shouldVisit(elevators[Solo].route, elevators[Solo].state.atFloor)
    /\ elevators' = [elevators EXCEPT ![Solo] =
          ElevatorAddRide(Fresh(@), Solo, 2 * elevators[Solo].state.atFloor, None)]
    /\ last' = [op |-> "Elevator.addRide", id |-> Solo,
                pickup |-> 2 * elevators[Solo].state.atFloor, dropoff |-> None,
                outcome |-> "returned"]
    /\ UNCHANGED <<now, bank, calls, hook, options, steps>>

NextHold ==
    \/ \E r \in ValidRides : DirectAddRide(Solo, r[1], r[2])
    \/ HoldRide
    \/ TimerFires(Solo)
    \/ Elapse

SpecHold == InitSolo /\ [][NextHold]_vars

(* Time passes, and the event loop runs a timer that is due.               *)
FairHold == SpecHold /\ WF_vars(Elapse) /\ []<>(~TimerIsDue)

----------------------------------------------------------------------------
(* Claims about the ElevatorIO, checked under SpecIO.                      *)

IO == elevators["io"]
IsMoving(st) == st.type \in {MOVING_UP, MOVING_DOWN}
IsTimed(st) == st.type \in {MOVING_UP, MOVING_DOWN, DOORS_OPEN}
IsCommand(l) == l.op \in {"move", "openDoors"}

(* C6: move(n), n # 0, issued in Idle{f} at time t leaves the machine in   *)
(* MovingUp (n > 0) or MovingDown (n < 0) with from = f, to = f + n and    *)
(* due_time = t + |n| * TRAVEL_TIME_PER_FLOOR, with exactly one pending    *)
(* timer, due at due_time, for Idle{f + n}; and the timer of a moving      *)
(* state fires when the clock is at due_time, emits first the idle event   *)
(* with at_floor = to, and leaves the state Idle{to} when no listener      *)
(* issues a command from inside that event.                                *)
C6_MoveThenIdleAtDueTime ==
    /\ (last.op = "move" /\ ~last.threw) =>
          LET f   == last.before.state.atFloor
              due == now + Abs(last.n) * TRAVEL_TIME_PER_FLOOR
          IN /\ IO.state = MovingState(IF last.n > 0 THEN MOVING_UP ELSE MOVING_DOWN,
                                       f, f + last.n, now, due)
             /\ IO.timers = << [due |-> due, state |-> [type |-> IDLE, atFloor |-> f + last.n]] >>
    /\ (last.op = "timer" /\ IsMoving(last.before.state)) =>
          /\ now = last.before.state.dueTime
          /\ IO.emitted[1] = [src |-> "io", key |-> IDLE,
                              arg |-> IdleState(last.before.state.toFloor, now)]
          /\ hook = None => /\ IO.state = IdleState(last.before.state.toFloor, now)
                            /\ Len(IO.emitted) = 2
                            /\ IO.timers = <<>>

C6_Witness ==
    /\ last.op = "timer"
    /\ last.before.state.type = MOVING_DOWN
    /\ last.before.state.fromFloor - last.before.state.toFloor = 2
    /\ IO.state.type = IDLE

(* C7: a command issued in a disallowed state (move when not Idle, move(0) *)
(* in any state, open_doors while moving) throws, and a command that       *)
(* throws leaves the IO state, the pending timer and the handle as they    *)
(* were and emits no event.                                                *)
Disallowed(l) ==
    \/ l.op = "move" /\ (l.n = 0 \/ l.before.state.type # IDLE)
    \/ l.op = "openDoors" /\ IsMoving(l.before.state)

C7_DisallowedCommandChangesNothing ==
    [][ IsCommand(last') =>
          /\ Disallowed(last') => last'.threw
          /\ last'.threw =>
                /\ IO'.state = IO.state
                /\ IO'.timers = IO.timers
                /\ IO'.timeout = IO.timeout
                /\ IO'.emitted = <<>> ]_vars

C7_Witness ==
    /\ last.op = "move" /\ last.n = 0 /\ last.threw
    /\ IO.state.type = DOORS_OPEN
    /\ Len(IO.timers) = 1

(* C8: open_doors() called in DoorsOpen replaces the close timer: the only *)
(* pending timer is then the one due DOOR_OPEN_TIME after this call, and   *)
(* the doors close (the timer of a DoorsOpen state fires) only              *)
(* DOOR_OPEN_TIME after the last open_doors(), never at the due time of an *)
(* earlier call.                                                            *)
C8_OpenHoldExtension ==
    /\ (last.op = "openDoors" /\ ~last.threw) =>
          /\ IO.state = DoorsOpenState(last.before.state.atFloor, now, now + DOOR_OPEN_TIME)
          /\ IO.timers = << [due |-> now + DOOR_OPEN_TIME,
                             state |-> [type |-> IDLE, atFloor |-> IO.state.atFloor]] >>
    /\ (last.op = "timer" /\ last.before.state.type = DOORS_OPEN) =>
          /\ now = last.before.state.startTime + DOOR_OPEN_TIME
          /\ Len(last.before.timers) = 1

C8_Witness ==
    /\ last.op = "openDoors" /\ ~last.threw
    /\ last.before.state.type = DOORS_OPEN
    /\ last.before.state.startTime < now
    /\ last.before.state.dueTime > now
    /\ hook = None

----------------------------------------------------------------------------
(* Claims about ElevatorService.addRide, checked under SpecBank.           *)

IsRide(l) == l.op = "addRide"
IsRideBegin(l) == l.op = "addRide" /\ l.phase = "begin"
IsRideFinish(l) == l.op = "addRide" /\ l.phase = "finish"
Returned(l) == l.op = "addRide" /\ l.outcome = "returned"

(* A number given in halves is an integer within [MIN_FLOOR, MAX_FLOOR].   *)
InRange(h) == h % 2 = 0 /\ 2 * MIN_FLOOR <= h /\ h <= 2 * MAX_FLOOR
ValidRide(hp, hd) == InRange(hp) /\ (hd = None \/ InRange(hd[1]))

RequestCount(route, f) ==
    IF shouldVisit(route, f) THEN route[IndexOfFloor(route, f)].requestCount ELSE 0

(* Elevator w has become w2 by taking the ride: it serves the pickup on    *)
(* the spot when it idles there, and else holds one more request for the   *)
(* pickup floor, with the dropoff queued behind it.                        *)
RideAdded(w, w2, hp, hd) ==
    LET p == hp \div 2
    IN IF w.state.type = IDLE /\ w.state.atFloor = p
       THEN /\ w2.state.type = DOORS_OPEN /\ w2.state.atFloor = p
            /\ (hd = None \/ hd[1] \div 2 = p \/ shouldVisit(w2.route, hd[1] \div 2))
       ELSE /\ RequestCount(w2.route, p) >= RequestCount(w.route, p) + 1
            /\ hd # None =>
                  \E i \in 1..Len(w2.route) :
                      /\ w2.route[i].cf > 0 /\ w2.route[i].floor = hd[1] \div 2
                      /\ \A j \in 1..Len(w.route) : w.route[j].cf # w2.route[i].cf

(* C1: a call of Bank.add_ride that returns an id returns the id of an     *)
(* elevator that is a member of the bank at the moment it returns,         *)
(* whatever add_ride, add_elevator and remove_elevator calls lie between   *)
(* its start and its return.                                               *)
C1_ReturnsMember == Returned(last) => IsMember(last.id)

(* C2: with USE_FREE_FIRST, a valid ride for which some member that does   *)
(* not veto it is free (route empty and IO idle) goes to the first such    *)
(* member in insertion order: its id is returned at once, no estimate is   *)
(* requested, the ride is added to it and no other elevator changes.       *)
C2_FreeFirstInInsertionOrder ==
    [][ (IsRideBegin(last') /\ options.USE_FREE_FIRST /\ ValidRide(last'.pickup, last'.dropoff)) =>
          LET p == last'.pickup \div 2
              d == DropoffOf(last'.dropoff)
              free == {i \in 1..Len(bank.ids) :
                          /\ ~checkIfRideIsVetoed(elevators[bank.ids[i]], p, d)
                          /\ elevators[bank.ids[i]].route = <<>>
                          /\ elevators[bank.ids[i]].state.type = IDLE}
          IN free # {} =>
                LET first == bank.ids[CHOOSE i \in free : \A j \in free : i <= j]
                IN /\ last'.outcome = "returned"
                   /\ last'.id = first
                   /\ calls' = calls
                   /\ RideAdded(elevators[first], elevators'[first], last'.pickup, last'.dropoff)
                   /\ \A id \in DOMAIN elevators \ {first} : elevators'[id] = elevators[id]
      ]_vars

C2_Witness ==
    /\ IsRideBegin(last) /\ last.outcome = "returned" /\ last.id = "E1"
    /\ bank.ids = <<"E1", "E2">>
    /\ elevators["E2"].route = <<>> /\ elevators["E2"].state.type = IDLE
    /\ ~checkIfRideIsVetoed(elevators["E2"], last.pickup \div 2, DropoffOf(last.dropoff))
    /\ elevators["E1"].route # <<>>

(* C3: a call that resumes after its estimates goes to the candidate with  *)
(* the smallest estimate greater than -1, the earlier candidate on a tie;  *)
(* when every estimate is -1 it goes to the candidate with the shortest    *)
(* route, the earlier candidate on a tie.  The ride is added to that       *)
(* elevator and its id is returned.                                        *)
C3_ShortestWaitThenShortestRoute ==
    [][ (IsRideFinish(last') /\ \A k \in 1..Len(last'.call.estimates) : ~last'.call.estimates[k].threw) =>
          LET c     == last'.call
              n     == Len(c.candidates)
              est   == [i \in 1..n |-> c.estimates[i].value]
              len   == [i \in 1..n |-> Len(elevators[c.candidates[i]].route)]
              waits == {i \in 1..n : est[i] > -1}
              best  == IF waits # {}
                       THEN CHOOSE i \in waits :
                              \A j \in waits : est[i] < est[j] \/ (est[i] = est[j] /\ i <= j)
                       ELSE CHOOSE i \in 1..n :
                              \A j \in 1..n : len[i] < len[j] \/ (len[i] = len[j] /\ i <= j)
              id    == c.candidates[best]
          IN /\ last'.outcome = "returned"
             /\ last'.id = id
             /\ RideAdded(elevators[id], elevators'[id], c.pickup, c.dropoff)
             /\ \A other \in DOMAIN elevators \ {id} : elevators'[other] = elevators[other]
      ]_vars

C3_Witness ==
    /\ IsRideFinish(last) /\ last.outcome = "returned"
    /\ last.call.candidates = <<"E1", "E2">>
    /\ last.id = "E2"
    /\ last.call.estimates[1].value > last.call.estimates[2].value
    /\ last.call.estimates[2].value > -1

(* C4: a ride never goes to an elevator that vetoes it: the id returned is *)
(* of an elevator that does not veto the ride, the candidates a suspended  *)
(* call holds are exactly the members that do not veto it, an elevator     *)
(* that vetoes it keeps its route and IO state, and when every member      *)
(* vetoes it the call fails with DomainError and nothing changes.          *)
C4_VetoingElevatorsAreNoCandidates ==
    [][ (IsRide(last') /\ ValidRide(last'.pickup, last'.dropoff)) =>
          LET p == last'.pickup \div 2
              d == DropoffOf(last'.dropoff)
              Vetoes(id) == checkIfRideIsVetoed(elevators[id], p, d)
          IN /\ last'.outcome = "returned" => ~Vetoes(last'.id)
             /\ \A id \in DOMAIN elevators :
                   Vetoes(id) => /\ elevators'[id].route = elevators[id].route
                                 /\ elevators'[id].state = elevators[id].state
             /\ (last'.phase = "begin" /\ last'.outcome = "pending") =>
                   LET c == calls'[Len(calls')]
                   IN {c.candidates[i] : i \in 1..Len(c.candidates)}
                         = {id \in DOMAIN elevators : IsMember(id) /\ ~Vetoes(id)}
             /\ (last'.phase = "begin" /\ \A id \in DOMAIN elevators : IsMember(id) => Vetoes(id)) =>
                   /\ last'.outcome = "DomainError"
                   /\ elevators' = elevators /\ calls' = calls /\ bank' = bank
      ]_vars

(* C5: Bank.add_ride and Elevator.add_ride fail with InvalidFloor when the *)
(* pickup, or a dropoff that is given, is not an integer or lies outside   *)
(* [MIN_FLOOR, MAX_FLOOR], and then no route, IO state, timer or suspended *)
(* call changes; with floors inside the range, MIN_FLOOR and MAX_FLOOR     *)
(* included, they do not fail so.                                          *)
C5_InvalidFloorBeforeAnyMutation ==
    [][ (IsRideBegin(last') \/ last'.op = "Elevator.addRide") =>
          IF ValidRide(last'.pickup, last'.dropoff)
          THEN last'.outcome # "InvalidFloorError"
          ELSE /\ last'.outcome = "InvalidFloorError"
               /\ elevators' = elevators /\ calls' = calls /\ bank' = bank
      ]_vars

C5_Witness ==
    /\ last.op = "Elevator.addRide" /\ last.outcome = "InvalidFloorError"
    /\ last.dropoff # None /\ last.dropoff[1] % 2 = 1
    /\ elevators[last.id].route # <<>> /\ elevators[last.id].timers # <<>>

(* The change events and the state-type events the IO of elevator w        *)
(* emitted during the last handler that ran on it, in emission order.      *)
ChangeEvents(w) == SelectSeq(w.emitted, LAMBDA e : e.src = "io" /\ e.key = "change")
StateEvents(w) == SelectSeq(w.emitted, LAMBDA e : e.src = "io" /\ e.key # "change")

(* C10: the change events of an elevator are delivered one per transition  *)
(* in the order of the transitions: the k-th event's to is the state the   *)
(* k-th transition entered, and its from is the to of the event before it. *)
C10_ChangeEventsFollowTransitions ==
    \A id \in DOMAIN elevators :
        LET ch == ChangeEvents(elevators[id])
            st == StateEvents(elevators[id])
        IN /\ Len(ch) = Len(st)
           /\ \A k \in 1..Len(ch) :
                 /\ ch[k].to = st[k].arg
                 /\ k > 1 => ch[k].from = ch[k - 1].to

----------------------------------------------------------------------------
(* Claims about the life cycle of the service, checked under SpecLife.     *)

ServiceEvents(w) == SelectSeq(w.emitted, LAMBDA e : e.src = "service")

HookIs(type) == hook # None /\ hook[1].ev = "availability" /\ hook[1].type = type

(* The step ran a handler on the IO of elevator id, so that emitted of the *)
(* elevator is what this step emitted.                                     *)
HandlerRan(id) ==
    \/ last'.op = "timer" /\ last'.id = id
    \/ last'.op = "Elevator.addRide" /\ last'.id = id /\ last'.outcome = "returned"
    \/ last'.op = "addElevator" /\ last'.id = id /\ ~last'.wasMember /\ HookIs("added")
    \/ last'.op = "removeElevator" /\ last'.id = id /\ last'.wasMember /\ HookIs("removed")

(* C11: the service emits a per-elevator or aggregated state event for an  *)
(* id only while the id is a member: after availability{added} (the step   *)
(* that adds it emits 'added' before anything else) and not in or after    *)
(* the step that emits availability{removed}, whatever timers of the       *)
(* removed elevator fire.                                                  *)
C11_StateEventsOnlyWhileMember ==
    [][\A id \in DOMAIN elevators :
          (HandlerRan(id) /\ ServiceEvents(elevators'[id]) # <<>>) => IsMember(id)']_vars

(* The timer of an elevator fires after the elevator was removed: its IO   *)
(* emits a change and the service emits nothing.                           *)
C11_Witness ==
    /\ last.op = "timer"
    /\ ~IsMember(last.id)
    /\ Len(bank.emitted) = 1 /\ bank.emitted[1].type = "removed"
    /\ bank.emitted[1].elevator = last.id
    /\ ChangeEvents(elevators[last.id]) # <<>>
    /\ ServiceEvents(elevators[last.id]) = <<>>

(* Every change event the IO of w emitted was re-emitted once under the    *)
(* elevator's id and once as the aggregated 'state' event.                 *)
RelayedOnce(w, id) ==
    LET ch == ChangeEvents(w)
        sv == ServiceEvents(w)
    IN /\ Len(sv) = 2 * Len(ch)
       /\ \A k \in 1..Len(ch) :
             /\ sv[2 * k - 1] = [src |-> "service", key |-> id, from |-> ch[k].from, to |-> ch[k].to]
             /\ sv[2 * k] = [src |-> "service", key |-> "state", elevator |-> id,
                             from |-> ch[k].from, to |-> ch[k].to]

(* C12: every transition of the IO of an elevator that is in the Map is    *)
(* re-emitted by the service as one event under the elevator's id and one  *)
(* aggregated 'state' event, whatever additions, starts and shutdowns came *)
(* before and also when the transition happens inside an 'availability'    *)
(* listener.                                                               *)
C12_MemberTransitionsAreRelayed ==
    [][\A id \in DOMAIN elevators :
          (HandlerRan(id) /\ IsMember(id)') => RelayedOnce(elevators'[id], id)]_vars

(* A transition of a member elevator after the service was shut down and   *)
(* started again.                                                          *)
C12_Witness ==
    /\ last.op = "timer"
    /\ IsMember(last.id)
    /\ elevators[last.id].running
    /\ ~elevators[last.id].relay
    /\ ChangeEvents(elevators[last.id]) # <<>>
    /\ ServiceEvents(elevators[last.id]) = <<>>

(* C13: when Elevator.shutdown() has run, for every elevator of the Map by *)
(* the service's shutdown() or for one elevator by removeElevator, no      *)
(* timer of that IO is pending any more.                                   *)
C13_ShutdownCancelsTimers ==
    /\ last.op = "shutdown" =>
          \A id \in DOMAIN elevators : IsMember(id) => elevators[id].timers = <<>>
    /\ (last.op = "removeElevator" /\ last.wasMember /\ ~HookIs("removed")) =>
          elevators[last.id].timers = <<>>

(* A timer set before the service's shutdown fires after it and takes the  *)
(* IO of the shut-down elevator from moving to idle.                       *)
C13_Witness ==
    /\ last.op = "timer"
    /\ IsMember(last.id)
    /\ ~elevators[last.id].running
    /\ IsMoving(last.before.state)
    /\ elevators[last.id].state.type = IDLE

(* C14: addElevator starts the elevator it inserts when the service is     *)
(* running at the time of the insert, and leaves it as it was, not         *)
(* running, when the service is not running.                               *)
C14_StartedOnInsertIffServiceRuns ==
    [][\A id \in DOMAIN elevators :
          (last'.op = "addElevator" /\ last'.id = id /\ ~last'.wasMember) =>
              (elevators'[id].running <=> (elevators[id].running \/ ServiceIsRunning))]_vars

(* An elevator was inserted while another elevator of the Map was not      *)
(* running.                                                                *)
C14_Witness ==
    /\ last.op = "addElevator" /\ ~last.wasMember
    /\ elevators[last.id].running
    /\ \E id \in DOMAIN elevators : id # last.id /\ IsMember(id) /\ ~elevators[id].running

----------------------------------------------------------------------------
(* Claims about the ElevatorRoute, checked under SpecRoute.                *)

(* How many of the tags that wait for floor f are tags for floor g: the    *)
(* calls of addRide(g) that visitNow(f) makes.                             *)
TagsFor(route, f, g) ==
    IF shouldVisit(route, f)
    THEN Cardinality({k \in 1..Len(route[IndexOfFloor(route, f)].visitAfter) :
                         route[IndexOfFloor(route, f)].visitAfter[k].floor = g})
    ELSE 0

(* C15: a floor is a key of the route at most once; addRide(f, ...) for a  *)
(* floor that is queued leaves its position, and without a dropoff the     *)
(* length, as they were; and requestCount of a floor counts the calls of   *)
(* addRide for it since it was last absent: each call, from a client or    *)
(* from visitNow turning a tag into a floor, adds one, starting at 1.      *)
C15_FloorKeysOnceAndCounted ==
    [][/\ \A i, j \in 1..Len(TheRoute') :
             (IsFloorKey(TheRoute'[i]) /\ IsFloorKey(TheRoute'[j])
              /\ TheRoute'[i].floor = TheRoute'[j].floor) => i = j
       /\ last'.op = "route.addRide" =>
             /\ shouldVisit(TheRoute, last'.pickup) =>
                   /\ IndexOfFloor(TheRoute', last'.pickup) = IndexOfFloor(TheRoute, last'.pickup)
                   /\ Len(TheRoute') = Len(TheRoute) + (IF last'.dropoff = None THEN 0 ELSE 1)
             /\ \A g \in RouteFloors :
                   RequestCount(TheRoute', g) =
                       RequestCount(TheRoute, g) + (IF g = last'.pickup THEN 1 ELSE 0)
       /\ last'.op = "route.visitNow" =>
             \A g \in RouteFloors :
                 RequestCount(TheRoute', g) =
                     IF g = last'.floor THEN 0
                     ELSE RequestCount(TheRoute, g) + TagsFor(TheRoute, last'.floor, g)]_vars

(* A floor was added for the third time in a row.                          *)
C15_Witness ==
    /\ last.op = "route.addRide" /\ last.dropoff = None
    /\ RequestCount(last.before, last.pickup) = 2
    /\ RequestCount(TheRoute, last.pickup) = 3
    /\ Len(TheRoute) = Len(last.before)

Key2Tag(e) == ConditionalFloor(e.floor, e.cf)

(* The tags that are keys of the route.                                    *)
UsedTagsOf(route) == {Key2Tag(route[i]) : i \in {j \in 1..Len(route) : ~IsFloorKey(route[j])}}

PositionOf(route, key) == CHOOSE i \in 1..Len(route) : Key(route[i]) = key

(* C16: the route iterates in the order in which its keys were inserted.   *)
(* Stated for every step: the keys that stay keep their order, the keys a  *)
(* step inserts come after all of them, a floor added again stays where it *)
(* is, and toArray and first give the floors of the keys, tags included,   *)
(* in that order.                                                          *)
C16_IteratesInInsertionOrder ==
    [][/\ \A i, j \in 1..Len(TheRoute') :
             (i < j /\ Key(TheRoute'[j]) \in Keys(TheRoute)) =>
                 /\ Key(TheRoute'[i]) \in Keys(TheRoute)
                 /\ PositionOf(TheRoute, Key(TheRoute'[i])) < PositionOf(TheRoute, Key(TheRoute'[j]))
       /\ (last'.op = "route.addRide" /\ last'.dropoff = None
           /\ shouldVisit(TheRoute, last'.pickup)) =>
             RouteToArray(TheRoute') = RouteToArray(TheRoute)
       /\ (last'.op = "route.addRide" /\ ~shouldVisit(TheRoute, last'.pickup)) =>
             RouteToArray(TheRoute') =
                 RouteToArray(TheRoute) \o <<last'.pickup>>
                 \o (IF last'.dropoff = None THEN <<>> ELSE <<last'.dropoff[1]>>)
       /\ Len(RouteToArray(TheRoute')) = RouteLength(TheRoute')
       /\ RouteFirst(TheRoute') =
             IF RouteLength(TheRoute') = 0 THEN None ELSE Some(RouteToArray(TheRoute')[1])]_vars

(* The first floor of a route that also holds a tag was added again.       *)
C16_Witness ==
    /\ last.op = "route.addRide" /\ last.dropoff = None
    /\ Len(last.before) >= 2
    /\ IsFloorKey(last.before[1]) /\ last.before[1].floor = last.pickup
    /\ RouteToArray(TheRoute) = RouteToArray(last.before)
    /\ \E k \in 1..Len(TheRoute) : ~IsFloorKey(TheRoute[k])

(* After addRide(p, d) the floor p is a key at its slot (where it was, or  *)
(* the end of the route as it was), and the last key is a tag for d that   *)
(* no key or list of the route held before; p's visitAfter ends with it.   *)
Reserved(r, r2, p, d) ==
    /\ shouldVisit(r2, p)
    /\ IndexOfFloor(r2, p) = (IF shouldVisit(r, p) THEN IndexOfFloor(r, p) ELSE Len(r) + 1)
    /\ Len(r2) > IndexOfFloor(r2, p)
    /\ ~IsFloorKey(r2[Len(r2)])
    /\ r2[Len(r2)].floor = d
    /\ r2[Len(r2)].cf \notin UsedTags(r)
    /\ LET va == r2[IndexOfFloor(r2, p)].visitAfter
       IN Len(va) > 0 /\ va[Len(va)] = Key2Tag(r2[Len(r2)])

(* C17 as the specification states it: after addRide(p, d) the route holds *)
(* p at its slot and a fresh tag for d at a later slot, and shouldVisit(d) *)
(* is false.                                                               *)
C17_DropoffNotVisitedAfterAddRide ==
    [][(last'.op = "route.addRide" /\ last'.dropoff # None) =>
          /\ Reserved(TheRoute, TheRoute', last'.pickup, last'.dropoff[1])
          /\ ~shouldVisit(TheRoute', last'.dropoff[1])]_vars

(* C17, amended: after addRide(p, d) the route holds p at its slot and a   *)
(* fresh tag for d as its last key, and the tag does not count for         *)
(* shouldVisit: shouldVisit(d) is what it was before the call, or true     *)
(* when d = p; and a floor that is not to be visited becomes so only by    *)
(* addRide with it as the pickup or by visitNow of a floor that a tag for  *)
(* it waits on.                                                            *)
C17_TagDoesNotCountForShouldVisit ==
    [][/\ (last'.op = "route.addRide" /\ last'.dropoff # None) =>
             /\ Reserved(TheRoute, TheRoute', last'.pickup, last'.dropoff[1])
             /\ shouldVisit(TheRoute', last'.dropoff[1]) <=>
                    (shouldVisit(TheRoute, last'.dropoff[1]) \/ last'.dropoff[1] = last'.pickup)
       /\ \A g \in RouteFloors :
             (~shouldVisit(TheRoute, g) /\ shouldVisit(TheRoute', g)) =>
                 \/ last'.op = "route.addRide" /\ last'.pickup = g
                 \/ last'.op = "route.visitNow" /\ TagsFor(TheRoute, last'.floor, g) > 0]_vars

(* A ride was added to a route that is not empty, its dropoff is not to be *)
(* visited yet.                                                            *)
C17_Witness ==
    /\ last.op = "route.addRide" /\ last.dropoff # None
    /\ Len(last.before) > 0
    /\ ~shouldVisit(TheRoute, last.dropoff[1])
    /\ \E k \in 1..Len(TheRoute) : ~IsFloorKey(TheRoute[k]) /\ TheRoute[k].floor = last.dropoff[1]

(* The step was visitNow(p) of a floor p whose item held the one tag cf.   *)
VisitedWithOneTag(p, cf) ==
    /\ last'.op = "route.visitNow" /\ last'.floor = p
    /\ shouldVisit(TheRoute, p)
    /\ TheRoute[IndexOfFloor(TheRoute, p)].visitAfter = <<cf>>

(* What visitNow(p) does for the tag cf for floor d that waited on p: d is *)
(* to be visited, as a floor appended to the route or requested once more, *)
(* and the tag keeps its place among the keys that remain, so that first() *)
(* is d when the tag is the first key.                                     *)
Fulfilled(r, r2, p, cf) ==
    /\ ~shouldVisit(r2, p)
    /\ shouldVisit(r2, cf.floor)
    /\ IF shouldVisit(r, cf.floor)
       THEN RequestCount(r2, cf.floor) = RequestCount(r, cf.floor) + 1
       ELSE /\ IndexOfFloor(r2, cf.floor) = Len(r2)
            /\ RequestCount(r2, cf.floor) = 1
    /\ \E k \in 1..Len(r2) : Key2Tag(r2[k]) = cf
    /\ \A i, j \in 1..Len(r2) :
          (i < j /\ Key(r2[i]) \in Keys(r) /\ Key(r2[j]) \in Keys(r)) =>
              PositionOf(r, Key(r2[i])) < PositionOf(r, Key(r2[j]))
    /\ Key2Tag(r2[1]) = cf => RouteFirst(r2) = Some(cf.floor)

(* addRide(3, 4); addRide(10); addRide(13); visitNow(3)                    *)
FulfillmentExample ==
    visitNow(addRide(addRide(addRide(<<>>, 3, Some(4)), 10, None), 13, None), 3)

(* C18 as the specification states it: visitNow(p) of a floor whose        *)
(* visitAfter is one tag for d leaves p no key and d to be visited, with   *)
(* the tag in its slot; the example route has length 4 and first() 4.      *)
C18_VisitFulfilsTheTag ==
    [][/\ \A p \in RouteFloors, cf \in UsedTagsOf(TheRoute) :
             VisitedWithOneTag(p, cf) => Fulfilled(TheRoute, TheRoute', p, cf)
       /\ RouteLength(FulfillmentExample) = 4
       /\ RouteFirst(FulfillmentExample) = Some(4)]_vars

(* C18, amended: the same for a tag for a floor d other than p; a tag for  *)
(* p itself is deleted with p by the visit, and p is no longer to be       *)
(* visited.                                                                *)
C18_VisitFulfilsTheTagOfAnotherFloor ==
    [][/\ \A p \in RouteFloors, cf \in UsedTagsOf(TheRoute) :
             VisitedWithOneTag(p, cf) =>
                 IF cf.floor # p THEN Fulfilled(TheRoute, TheRoute', p, cf)
                 ELSE /\ ~shouldVisit(TheRoute', p)
                      /\ \A k \in 1..Len(TheRoute') : Key2Tag(TheRoute'[k]) # cf
       /\ RouteLength(FulfillmentExample) = 4
       /\ RouteFirst(FulfillmentExample) = Some(4)]_vars

(* The route of the example after its visitNow(3).                         *)
C18_Witness ==
    /\ last.op = "route.visitNow" /\ last.floor = 3
    /\ RouteToArray(last.before) = <<3, 4, 10, 13>>
    /\ TheRoute = FulfillmentExample
    /\ RouteToArray(TheRoute) = <<4, 10, 13, 4>>
    /\ ~IsFloorKey(TheRoute[1])

(* s can be had from t by leaving entries out.                             *)
RECURSIVE IsSubsequence(_, _)
IsSubsequence(s, t) ==
    IF Len(s) = 0 THEN TRUE
    ELSE IF Len(t) = 0 THEN FALSE
    ELSE IF Head(s) = Head(t) THEN IsSubsequence(Tail(s), Tail(t))
    ELSE IsSubsequence(s, Tail(t))

(* The floors of a list of stops.                                          *)
FloorSet(stops) == {stops[i] : i \in 1..Len(stops)}

(* The last operation was InsertOrder.getOrderedStops(route, current).     *)
OrderedStopsRan == last.op = "getOrderedStops"

(* Every ride of the route to another floor has its dropoff returned after *)
(* its pickup.                                                             *)
DropoffAfterPickup(route, stops) ==
    \A i \in 1..Len(route) :
        IsFloorKey(route[i]) =>
            \A k \in 1..Len(route[i].visitAfter) :
                route[i].visitAfter[k].floor # route[i].floor =>
                    \E a, b \in 1..Len(stops) :
                        /\ a < b
                        /\ stops[a] = route[i].floor
                        /\ stops[b] = route[i].visitAfter[k].floor

(* addRide(7); addRide(5); addRide(10); getOrderedStops(route, 3)          *)
OrderedStopsExample ==
    InsertOrderStops(addRide(addRide(addRide(<<>>, 7, None), 5, None), 10, None),
                     Some(3), None, NoStopEarly)

(* C20 as the specification states it: the stops returned are the floors   *)
(* of the queue in insertion order, and the route is left empty.           *)
C20_StopsAreTheQueue ==
    OrderedStopsRan =>
        /\ last.stops = RouteToArray(last.before)
        /\ RouteLength(TheRoute) = 0

(* C20, amended: the stops returned are the floors of the queue in         *)
(* insertion order with some repeated floors left out: every floor of the  *)
(* queue is returned, no floor twice in a row, each dropoff after its      *)
(* pickup, all of the queue when it holds no floor twice; the route is     *)
(* left empty; and the example gives [7, 5, 10].                           *)
C20_StopsFollowTheQueue ==
    /\ OrderedStopsRan =>
          /\ RouteLength(TheRoute) = 0
          /\ IsSubsequence(last.stops, RouteToArray(last.before))
          /\ FloorSet(last.stops) = FloorSet(RouteToArray(last.before))
          /\ \A a \in 1..(Len(last.stops) - 1) : last.stops[a] # last.stops[a + 1]
          /\ DropoffAfterPickup(last.before, last.stops)
          /\ Cardinality(FloorSet(RouteToArray(last.before))) = Len(last.before) =>
                last.stops = RouteToArray(last.before)
    /\ OrderedStopsExample.stops = <<7, 5, 10>>
    /\ RouteLength(OrderedStopsExample.route) = 0

(* The stops of a route of a ride and two more floors were returned.       *)
C20_Witness ==
    /\ OrderedStopsRan
    /\ Len(last.before) = 4 /\ ~IsFloorKey(last.before[2])
    /\ last.stops = <<3, 4, 10, 13>>
    /\ RouteLength(TheRoute) = 0

(* A route that holds a floor twice had its stops returned.                *)
C20_RepeatedFloor ==
    /\ OrderedStopsRan
    /\ RouteToArray(last.before) = <<3, 4, 4>>
    /\ last.stops = <<3, 4>>

(* The step is the part of ElevatorService.addRide that asks every         *)
(* candidate for its estimate and is suspended on them.                    *)
EstimatesTaken ==
    /\ last'.op = "addRide" /\ last'.phase = "begin" /\ last'.outcome = "pending"

StopEnRouteRan ==
    /\ last.op = "strategy.getOrderedStops"
    /\ last.strategy = "StopEnRoute" /\ last.on = "route" /\ last.targetFloor = None

(* The stops of an elevator that travels from floor cur toward the first   *)
(* key of the route, stops at the first floor on its way that is to be     *)
(* visited, visits it, and goes on like that from there.                   *)
RECURSIVE TravelStops(_, _)
TravelStops(route, cur) ==
    IF Len(route) = 0 THEN <<>>
    ELSE LET rng == range(cur, route[1].floor)
             Stop(s) == <<s>> \o TravelStops(visitNow(route, s), s)
         IN IF \A k \in 1..Len(rng) : ~shouldVisit(route, rng[k]) THEN <<>>
            ELSE Stop(rng[CHOOSE k \in 1..Len(rng) :
                            /\ shouldVisit(route, rng[k])
                            /\ \A j \in 1..(k - 1) : ~shouldVisit(route, rng[j])])

(* addRide(7); addRide(5); addRide(10); getOrderedStops(route, 3)          *)
StopEnRouteExample ==
    StopEnRouteStops(addRide(addRide(addRide(<<>>, 7, None), 5, None), 10, None),
                     Some(3), None, NoStopEarly)

TargetRan == last.op = "strategy.getOrderedStops" /\ last.targetFloor # None

(* The route with the target in it: as it was when the target is a floor   *)
(* of it (requested once more), with the target at its end when not.       *)
TargetInserted(route, t) ==
    IF shouldVisit(route, t)
    THEN [route EXCEPT ![IndexOfFloor(route, t)].requestCount = @ + 1]
    ELSE Append(route, RouteItem(t))

(* The route after visitNow of each of the stops from the k-th on.         *)
RECURSIVE VisitAll(_, _, _)
VisitAll(route, stops, k) ==
    IF k > Len(stops) THEN route ELSE VisitAll(visitNow(route, stops[k]), stops, k + 1)

(* C22: getOrderedStops with a target, of either strategy, on a route or a *)
(* copy: the target is inserted when absent and the keys are unchanged     *)
(* when present; the stops end with the target, which occurs once; the     *)
(* route is left as the visits of the stops leave it, none after the       *)
(* target's; and every floor that is not among the stops is still queued.  *)
C22_HaltsAtTheTarget ==
    TargetRan =>
        LET Halted(r0) ==
                /\ Keys(r0) = Keys(last.before) \cup {<<last.targetFloor[1], 0>>}
                /\ shouldVisit(last.before, last.targetFloor[1]) =>
                       [i \in 1..Len(r0) |-> Key(r0[i])] =
                       [i \in 1..Len(last.before) |-> Key(last.before[i])]
                /\ Len(last.stops) >= 1
                /\ last.stops[Len(last.stops)] = last.targetFloor[1]
                /\ \A k \in 1..(Len(last.stops) - 1) : last.stops[k] # last.targetFloor[1]
                /\ last.after = VisitAll(r0, last.stops, 1)
                /\ ~shouldVisit(last.after, last.targetFloor[1])
                /\ \A i \in 1..Len(r0) :
                       (IsFloorKey(r0[i]) /\ r0[i].floor \notin FloorSet(last.stops)) =>
                           shouldVisit(last.after, r0[i].floor)
        IN Halted(TargetInserted(last.before, last.targetFloor[1]))

(* A StopEnRoute on its way to floor 13 halted at its target, floor 10,    *)
(* after the stop at 4; floor 13 is still queued.                          *)
C22_Witness ==
    /\ TargetRan
    /\ last.strategy = "StopEnRoute" /\ last.on = "copy()" /\ last.currentFloor = INITIAL_FLOOR
    /\ last.targetFloor = Some(10)
    /\ RouteToArray(last.before) = <<13, 4>>
    /\ last.stops = <<4, 10>>
    /\ RouteToArray(last.after) = <<13>>

(* An InsertOrder halted at its target, a floor that was queued already.   *)
C22_InsertOrderHalted ==
    /\ TargetRan
    /\ last.strategy = "InsertOrder"
    /\ last.targetFloor = Some(4)
    /\ RouteToArray(last.before) = <<10, 4, 3>>
    /\ last.stops = <<10, 4>>
    /\ RouteToArray(last.after) = <<3>>

----------------------------------------------------------------------------
(* Claims about the estimates.                                             *)

(* The estimates the suspended calls of the service were given.            *)
EstimatesInFlight ==
    {calls[c].estimates[i] : <<c, i>> \in
        {x \in (1..Len(calls)) \X (1..Cardinality(ElevatorIds)) :
            x[2] <= Len(calls[x[1]].estimates)}}

(* C23: every estimate an elevator gave is -1 or a time from 0 to          *)
(* ESTIMATION_LIMIT.                                                       *)
C23_EstimateIsBounded ==
    \A e \in EstimatesInFlight : e.value = -1 \/ (0 <= e.value /\ e.value <= ESTIMATION_LIMIT)

(* One candidate, on the move, answered -1 and the other a time.           *)
C23_Witness ==
    /\ Len(calls) > 0
    /\ \E i, j \in 1..Len(calls[1].estimates) :
          /\ calls[1].estimates[i].value = -1
          /\ calls[1].estimates[j].value > 0
          /\ IsMoving(elevators[calls[1].candidates[i]].state)

(* C24: an estimate is the accumulated door and travel time when that is   *)
(* under ESTIMATION_LIMIT, and is -1 only when that time reached the       *)
(* limit, whatever the state of the IO the current floor was read from.    *)
C24_MinusOneOnlyAtTheLimit ==
    \A e \in EstimatesInFlight :
        ~e.threw =>
            /\ e.value # -1 => (~e.nan /\ e.value = e.time /\ e.time < ESTIMATION_LIMIT)
            /\ e.value = -1 => (~e.nan /\ e.time >= ESTIMATION_LIMIT)

(* An elevator on the move answered -1 for a ride without dropoff.         *)
C24_Witness ==
    /\ Len(calls) > 0
    /\ calls[1].dropoff = None
    /\ \E i \in 1..Len(calls[1].estimates) :
          /\ calls[1].estimates[i].value = -1
          /\ calls[1].estimates[i].nan
          /\ IsMoving(elevators[calls[1].candidates[i]].state)

(* An estimate of -1 was given because the limit was reached.              *)
C24_LimitReached ==
    \E e \in EstimatesInFlight : e.value = -1 /\ ~e.nan /\ e.time >= ESTIMATION_LIMIT

----------------------------------------------------------------------------
(* Claims about one running elevator, checked under SpecSolo.              *)

(* The step ran a handler of the elevator: a timer, or an addRide.         *)
SoloHandlerRan ==
    \/ last'.op = "timer"
    \/ last'.op = "Elevator.addRide" /\ last'.outcome = "returned"

(* The step made the doors of the elevator open at floor f.                *)
DoorsOpenedAt(f) ==
    /\ SoloHandlerRan
    /\ \E k \in 1..Len(elevators'[Solo].emitted) :
        /\ elevators'[Solo].emitted[k].src = "io"
        /\ elevators'[Solo].emitted[k].key = DOORS_OPEN
        /\ elevators'[Solo].emitted[k].arg.atFloor = f

(* The route the decision step of this step found: the route with the     *)
(* ride in it when the step is an addRide.                                 *)
RouteDecidedOn ==
    IF last'.op = "Elevator.addRide"
    THEN addRide(elevators[Solo].route, FloorOf(last'.pickup), DropoffOf(last'.dropoff))
    ELSE elevators[Solo].route

(* C25: an elevator with the InsertOrder strategy that arrives at a floor  *)
(* on its way opens its doors there only when that floor is the one that   *)
(* was queued first, never at one that was queued later.                   *)
C25_InsertOrderStopsInOrder ==
    [][\A f \in Floors :
          (/\ elevators[Solo].strategy = "InsertOrder"
           /\ IsMoving(elevators[Solo].state)
           /\ DoorsOpenedAt(f)) =>
              RouteFirst(RouteDecidedOn) = Some(f)]_vars

(* An InsertOrder elevator on its way from floor 1 to floor -1, queued     *)
(* first, has opened its doors at floor 0, queued later.                   *)
C25_Witness ==
    /\ elevators[Solo].strategy = "InsertOrder"
    /\ last.op = "timer"
    /\ RouteToArray(last.before.route) = <<-1, 0>>
    /\ elevators[Solo].state.type = DOORS_OPEN /\ elevators[Solo].state.atFloor = 0
    /\ RouteToArray(elevators[Solo].route) = <<-1>>

(* The tags a route of the one elevator can hold.                          *)
SoloTags == {ConditionalFloor(d, id) : d \in Floors, id \in 1..(MaxOps + SoloOps)}

(* The tag is a key of the route and waits in the visitAfter of floor p.   *)
WaitsOn(route, p, cf) ==
    /\ cf \in UsedTagsOf(route)
    /\ \E i \in 1..Len(route) :
          /\ IsFloorKey(route[i]) /\ route[i].floor = p
          /\ \E k \in 1..Len(route[i].visitAfter) : route[i].visitAfter[k] = cf

(* The tag is a key of the route and the floor it is for is queued with    *)
(* the tag in its deleteOnVisit.                                           *)
Upgraded(route, cf) ==
    /\ cf \in UsedTagsOf(route)
    /\ \E i \in 1..Len(route) :
          /\ IsFloorKey(route[i]) /\ route[i].floor = cf.floor
          /\ \E k \in 1..Len(route[i].deleteOnVisit) : route[i].deleteOnVisit[k] = cf

(* The doors of the elevator are open at floor f.                          *)
DoorsAreOpenAt(f) ==
    elevators[Solo].state.type = DOORS_OPEN /\ elevators[Solo].state.atFloor = f

(* What a step does to the tag of a ride from p to another floor: while    *)
(* it waits on p it is not yet in any deleteOnVisit, it leaves the         *)
(* visitAfter of p only in a step that opens the doors at p, and it leaves *)
(* the queue only in a step that opens the doors at its floor.             *)
TagFollowsThePickup(p, cf) ==
    /\ WaitsOn(elevators[Solo].route, p, cf) =>
          /\ ~Upgraded(elevators[Solo].route, cf)
          /\ \/ WaitsOn(elevators'[Solo].route, p, cf)
             \/ DoorsOpenedAt(p) /\ Upgraded(elevators'[Solo].route, cf)
    /\ Upgraded(elevators[Solo].route, cf) =>
          \/ Upgraded(elevators'[Solo].route, cf)
          \/ DoorsOpenedAt(cf.floor) /\ cf \notin UsedTagsOf(elevators'[Solo].route)
    /\ cf \notin UsedTagsOf(elevators[Solo].route) =>
          \/ cf \notin UsedTagsOf(elevators'[Solo].route)
          \/ WaitsOn(elevators'[Solo].route, last'.pickup \div 2, cf)
          \/ DoorsOpenedAt(last'.pickup \div 2) /\ Upgraded(elevators'[Solo].route, cf)

----------------------------------------------------------------------------
(* Claims about the copy of a route, checked under SpecStrategy.           *)

(* The keys of a route in their order.                                     *)
KeySeq(route) == [i \in 1..Len(route) |-> Key(route[i])]

(* The operation of this step, applied to route.copy() instead of the      *)
(* route, returns what it returned and leaves the keys it left.            *)
SameOnTheCopy ==
    /\ last'.op = "route.addRide" =>
          KeySeq(addRide(RouteCopy(TheRoute), last'.pickup, last'.dropoff)) = KeySeq(TheRoute')
    /\ last'.op = "route.visitNow" =>
          /\ shouldVisit(RouteCopy(TheRoute), last'.floor) = last'.ret
          /\ KeySeq(visitNow(RouteCopy(TheRoute), last'.floor)) = KeySeq(TheRoute')
    /\ (last'.op = "strategy.getOrderedStops" /\ last'.on = "route") =>
          LET Same(r) == r.stops = last'.stops /\ KeySeq(r.route) = KeySeq(TheRoute')
          IN Same(getOrderedStops(last'.strategy, RouteCopy(TheRoute), Some(last'.currentFloor),
                                  last'.targetFloor, NoStopEarly))

(* C27: an operation applied to the copy of a reachable route returns what *)
(* it returns on the route and leaves the same keys in the same order.     *)
C27_CopyBehavesAsTheRoute == [][SameOnTheCopy]_vars

(* The visit of a dropoff whose pickup was visited emptied the route; on   *)
(* the copy of the route the same visit leaves the tag of the ride.        *)
C27_Witness ==
    /\ last.op = "route.visitNow" /\ last.ret
    /\ TheRoute = <<>>
    /\ KeySeq(RouteCopy(last.before)) = KeySeq(last.before)
    /\ Len(visitNow(RouteCopy(last.before), last.floor)) = 1
    /\ ~IsFloorKey(visitNow(RouteCopy(last.before), last.floor)[1])

(* The places of the route that hold the tag in a visitAfter list.         *)
VisitAfterRefs(route, cf) ==
    {x \in (1..Len(route)) \X (1..Len(route)) :
        /\ IsFloorKey(route[x[1]])
        /\ x[2] <= Len(route[x[1]].visitAfter)
        /\ route[x[1]].visitAfter[x[2]] = cf}

(* C28: every tag in the queue is either in the visitAfter of exactly one  *)
(* floor of the route, or in the deleteOnVisit of the floor of the route   *)
(* it is for; none is without a floor whose visit will remove it.          *)
C28_EveryTagHasItsFloor ==
    \A cf \in UsedTagsOf(TheRoute) :
        \/ Cardinality(VisitAfterRefs(TheRoute, cf)) = 1 /\ ~Upgraded(TheRoute, cf)
        \/ Cardinality(VisitAfterRefs(TheRoute, cf)) = 0 /\ Upgraded(TheRoute, cf)

(* A route holds a tag whose pickup was visited and one whose pickup was   *)
(* not.                                                                    *)
C28_Witness ==
    \E cf, cg \in UsedTagsOf(TheRoute) :
        /\ Upgraded(TheRoute, cf)
        /\ Cardinality(VisitAfterRefs(TheRoute, cg)) = 1
        /\ last.op = "route.addRide"

(* What the decision step, run with the IO Idle at floor f and the route   *)
(* r, has done by the end of the step: visited f and opened the doors, or  *)
(* started a move of one floor toward first(), or nothing.                 *)
Decided(f, r) ==
    IF shouldVisit(r, f)
    THEN /\ elevators'[Solo].route = visitNow(r, f)
         /\ DoorsOpenedAt(f)
         /\ elevators'[Solo].state.type = DOORS_OPEN /\ elevators'[Solo].state.atFloor = f
    ELSE IF RouteLength(r) > 0
    THEN /\ elevators'[Solo].route = r
         /\ IsMoving(elevators'[Solo].state)
         /\ elevators'[Solo].state.fromFloor = f
         /\ Abs(elevators'[Solo].state.toFloor - f) = 1
         /\ (elevators'[Solo].state.toFloor - f) * (RouteFirst(r)[1] - f) > 0
    ELSE /\ elevators'[Solo].route = r
         /\ elevators'[Solo].state.type = IDLE /\ elevators'[Solo].state.atFloor = f
         /\ elevators'[Solo].timers = <<>>

(* C29: the decision step, run at every idle event and inside addRide when *)
(* the IO is Idle, visits the floor and opens the doors, or starts a move  *)
(* of one floor toward first(), or does nothing; addRide issues no command *)
(* while the IO is not Idle; a floor leaves the route only as the doors    *)
(* open at it, and the doors open only at a floor that was queued.         *)
C29_DecisionStep ==
    [][SoloHandlerRan =>
         /\ last'.op = "timer" =>
               /\ Len(elevators[Solo].timers) = 1
               /\ Decided(elevators[Solo].timers[1].state.atFloor, RouteDecidedOn)
         /\ last'.op = "Elevator.addRide" =>
               IF elevators[Solo].state.type = IDLE
               THEN Decided(elevators[Solo].state.atFloor, RouteDecidedOn)
               ELSE /\ elevators'[Solo].route = RouteDecidedOn
                    /\ elevators'[Solo].state = elevators[Solo].state
                    /\ elevators'[Solo].timers = elevators[Solo].timers
                    /\ elevators'[Solo].emitted = <<>>
         /\ \A f \in Floors :
               /\ (shouldVisit(RouteDecidedOn, f) /\ ~shouldVisit(elevators'[Solo].route, f)) =>
                      DoorsOpenedAt(f)
               /\ DoorsOpenedAt(f) => shouldVisit(RouteDecidedOn, f)]_vars

(* The doors closed at floor 1 and, floor -1 being queued, the elevator    *)
(* started down to floor 0.                                                *)
C29_Witness ==
    /\ last.op = "timer"
    /\ last.before.state.type = DOORS_OPEN /\ last.before.state.atFloor = 1
    /\ RouteFirst(elevators[Solo].route) = Some(-1)
    /\ elevators[Solo].state.type = MOVING_DOWN
    /\ elevators[Solo].state.fromFloor = 1 /\ elevators[Solo].state.toFloor = 0

----------------------------------------------------------------------------
(* Claims about the elevators of the service, checked under SpecBank.      *)

(* The floors the state of an IO names lie in [MIN_FLOOR, MAX_FLOOR], and  *)
(* a move is one of one floor that takes the time of one floor.            *)
StateInRange(st) ==
    IF st.type \in {IDLE, DOORS_OPEN} THEN st.atFloor \in Floors
    ELSE /\ st.fromFloor \in Floors /\ st.toFloor \in Floors
         /\ st.toFloor - st.fromFloor = (IF st.type = MOVING_UP THEN 1 ELSE -1)
         /\ st.dueTime - st.startTime = TRAVEL_TIME_PER_FLOOR

(* C36: in every reachable state the floor an IO is at, the floors it      *)
(* moves from and to and the floor its pending timer will set lie in       *)
(* [MIN_FLOOR, MAX_FLOOR], and every move is a move of one floor up or     *)
(* down, whatever rides, valid or not, the service and the elevators were  *)
(* asked for.                                                              *)
C36_FloorsStayInRange ==
    \A id \in DOMAIN elevators :
        /\ StateInRange(elevators[id].state)
        /\ \A k \in 1..Len(elevators[id].timers) :
              elevators[id].timers[k].state.atFloor \in Floors

(* An elevator has moved to the top floor and one to the bottom floor,     *)
(* where a further move in the same direction would leave the range.       *)
C36_Witness ==
    /\ last.op = "timer"
    /\ \E id, id2 \in DOMAIN elevators :
          /\ elevators[id].state.type = DOORS_OPEN /\ elevators[id].state.atFloor = MAX_FLOOR
          /\ elevators[id2].state.type \in {DOORS_OPEN, IDLE}
          /\ elevators[id2].state.atFloor = MIN_FLOOR

(* The call of this step has returned the id of a free elevator at once.   *)
FreeReturn(l) == IsRideBegin(l) /\ l.outcome = "returned"

(* C39: with USE_FREE_FIRST, rides asked of the service one right after    *)
(* the other, with no timer in between, go to distinct free elevators in   *)
(* the order of the bank: the elevator a call has taken is free before and *)
(* not free after, an elevator that is not free becomes free again only in *)
(* a timer, so the next call that finds a free elevator takes another one, *)
(* and after the first of the bank was taken the next call takes the       *)
(* second when that is free and does not veto the ride.                    *)
C39_BackToBackRidesTakeDistinctElevators ==
    [][ /\ \A id \in DOMAIN elevators :
              (~isFree(elevators[id]) /\ isFree(elevators'[id])) => last'.op = "timer"
        /\ FreeReturn(last') =>
              /\ options.USE_FREE_FIRST
              /\ isFree(elevators[last'.id])
              /\ ~isFree(elevators'[last'.id])
        /\ (FreeReturn(last) /\ FreeReturn(last')) =>
              /\ last'.id # last.id
              /\ (/\ bank.ids = <<last.id, last'.id>>
                  \/ /\ Len(bank.ids) = 2 /\ bank.ids[2] = last.id
                     /\ \/ ~isFree(elevators[bank.ids[1]]) 
                        \/ checkIfRideIsVetoed(elevators[bank.ids[1]], last.pickup \div 2,
                                               DropoffOf(last.dropoff)))
        /\ (/\ FreeReturn(last) /\ IsRideBegin(last') /\ options.USE_FREE_FIRST
            /\ ValidRide(last'.pickup, last'.dropoff)
            /\ \E i \in 1..Len(bank.ids) :
                  /\ isFree(elevators[bank.ids[i]])
                  /\ ~checkIfRideIsVetoed(elevators[bank.ids[i]], last'.pickup \div 2,
                                          DropoffOf(last'.dropoff))) =>
              FreeReturn(last')
      ]_vars

(* Two rides were asked for back to back, the first for the floor the      *)
(* elevators idle at: the first went to E1, the second to E2.              *)
C39_Witness ==
    /\ FreeReturn(last) /\ last.id = "E2"
    /\ steps = 2 /\ now = 0
    /\ bank.ids = <<"E1", "E2">>
    /\ elevators["E1"].state.type = DOORS_OPEN /\ elevators["E1"].route = <<>>
    /\ elevators["E1"].vetoes = {} /\ elevators["E2"].vetoes = {}
    /\ ~isFree(elevators["E2"])

(* The tags a route holds for floor d, wherever they are.                  *)
TagsOfFloor(route, d) == {cf \in UsedTagsOf(route) : cf.floor = d}

(* Elevator w has become w2 by taking the ride exactly once.  Idle at the  *)
(* pickup it has visited it and opened its doors, and the dropoff, when it *)
(* is another floor, is queued with one new tag; else the pickup holds one *)
(* more request, the route has grown by the pickup when it was not queued  *)
(* and by one new tag for the dropoff, and the IO has left Idle for a move *)
(* or is as it was.                                                        *)
RideAddedOnce(w, w2, hp, hd) ==
    LET p == hp \div 2
        d == DropoffOf(hd)
    IN IF w.state.type = IDLE /\ w.state.atFloor = p
       THEN /\ w2.state.type = DOORS_OPEN /\ w2.state.atFloor = p
            /\ ~shouldVisit(w2.route, p)
            /\ (d # None /\ d # Some(p)) =>
                  /\ shouldVisit(w2.route, d[1])
                  /\ Cardinality(TagsOfFloor(w2.route, d[1]))
                        = Cardinality(TagsOfFloor(w.route, d[1])) + 1
                  /\ RequestCount(w2.route, d[1]) = RequestCount(w.route, d[1]) + 1
            /\ (d = None \/ d = Some(p)) => UsedTagsOf(w2.route) \subseteq UsedTagsOf(w.route)
       ELSE /\ RequestCount(w2.route, p) = RequestCount(w.route, p) + 1
            /\ Len(w2.route) = Len(w.route) + (IF shouldVisit(w.route, p) THEN 0 ELSE 1)
                                           + (IF d = None THEN 0 ELSE 1)
            /\ \A j \in 1..Len(w.route) : Key(w2.route[j]) = Key(w.route[j])
            /\ d # None =>
                  /\ w2.route[Len(w2.route)].cf > 0
                  /\ w2.route[Len(w2.route)].floor = d[1]
                  /\ w2.route[Len(w2.route)] \notin UsedTagsOf(w.route)
                  /\ WaitsOn(w2.route, p, w2.route[Len(w2.route)])
            /\ IF w.state.type = IDLE
               THEN IsMoving(w2.state) /\ w2.state.fromFloor = w.state.atFloor
               ELSE w2.state = w.state /\ w2.timers = w.timers

(* C40: a call of the service's addRide that returns id X, at once or      *)
(* after its estimates, has added the ride to elevator X exactly once and  *)
(* has left the route, the IO state and the timers of every other elevator *)
(* as they were; a step of a call that fails, or that is suspended for its *)
(* estimates, changes no route, no IO state and no timer.                  *)
C40_RideGoesToTheReturnedElevatorOnly ==
    [][IsRide(last') =>
         IF last'.outcome = "returned"
         THEN /\ RideAddedOnce(elevators[last'.id], elevators'[last'.id],
                               last'.pickup, last'.dropoff)
              /\ \A id \in DOMAIN elevators \ {last'.id} : elevators'[id] = elevators[id]
         ELSE \A id \in DOMAIN elevators :
                  Snapshot(elevators'[id]) = Snapshot(elevators[id])
      ]_vars

(* A call that was suspended for its estimates has returned E2, when E1    *)
(* was on its way, and E2 holds the pickup and the tag of the ride; and a  *)
(* call has failed before.                                                 *)
C40_Witness ==
    /\ IsRideFinish(last) /\ last.outcome = "returned" /\ last.id = "E2"
    /\ last.dropoff # None
    /\ IsMoving(elevators["E1"].state)
    /\ Len(elevators["E2"].route) >= 2

(* A call has failed: all elevators of the bank veto the floor.            *)
C40_FailedCall ==
    /\ IsRideBegin(last) /\ last.outcome = "DomainError"
    /\ \E id \in DOMAIN elevators : elevators[id].state.type # IDLE

(* The time the pickup phase of the estimate of elevator w comes to.       *)
PickupPhaseTime(w, p) ==
    estimatePickupDropoffTime(w.strategy, RouteCopy(w.route), GetStateAtFloor(w.state), p, None).time

(* The estimate e that elevator w gave for the ride from p to d holds the  *)
(* dropoff phase: unless it ran over the limit, it is at least the time of *)
(* the pickup phase, one DOOR_OPEN_TIME for the stop at d and the travel   *)
(* from p to d.                                                            *)
HoldsDropoffPhase(w, e, p, d) ==
    (/\ GetStateAtFloor(w.state) # None
     /\ PickupPhaseTime(w, p) < ESTIMATION_LIMIT) =>
        \/ e.time > ESTIMATION_LIMIT
        \/ e.time >= PickupPhaseTime(w, p) + DOOR_OPEN_TIME
                        + Abs(d - p) * TRAVEL_TIME_PER_FLOOR

(* C33: the estimate an elevator gives for a ride with a dropoff, the      *)
(* pickup phase having stayed under the limit, includes the dropoff phase  *)
(* for every dropoff floor of the range, floor 0 and the negative floors   *)
(* too; and for an elevator that is at the pickup the pickup phase is one  *)
(* DOOR_OPEN_TIME.                                                         *)
C33_DropoffPhaseForEveryFloor ==
    [][(IsRideBegin(last') /\ last'.outcome = "pending") =>
         LET c == calls'[Len(calls')]
             p == c.pickup \div 2
         IN \A i \in 1..Len(c.candidates) :
              /\ c.dropoff # None =>
                    HoldsDropoffPhase(elevators[c.candidates[i]], c.estimates[i], p,
                                      c.dropoff[1] \div 2)
              /\ (c.dropoff = None /\ GetStateAtFloor(elevators[c.candidates[i]].state) = Some(p)) =>
                    c.estimates[i].time = DOOR_OPEN_TIME
      ]_vars

(* An elevator with its doors open at floor 0 has estimated a ride from 0  *)
(* to the negative floor -1 with its dropoff phase: two stops and one      *)
(* floor of travel.                                                        *)
C33_Witness ==
    \E i \in 1..Len(calls) :
        /\ calls[i].pickup = 0 /\ calls[i].dropoff = Some(2 * MIN_FLOOR)
        /\ calls[i].estimates[1].time = 2 * DOOR_OPEN_TIME + TRAVEL_TIME_PER_FLOOR
        /\ calls[i].estimates[1].value = calls[i].estimates[1].time
        /\ elevators[calls[i].candidates[1]].state.type = DOORS_OPEN

----------------------------------------------------------------------------
(* Claims about running elevators, checked under SpecLife and SpecSolo.    *)

(* C37: a running elevator does not rest Idle with work pending: between   *)
(* the handlers, an elevator that runs and whose IO is Idle has an empty   *)
(* route.                                                                  *)
C37_NoIdleWithWorkPending ==
    \A id \in DOMAIN elevators :
        (elevators[id].running /\ elevators[id].state.type = IDLE) =>
            RouteLength(elevators[id].route) = 0

(* The other half of C37: wherever the decision step would ask the         *)
(* strategy, with the IO Idle at a floor that is not queued and the route  *)
(* not empty, getNrFloorsToMove is not 0: the first key of the route is    *)
(* never a tag for the floor the elevator is at without that floor queued. *)
C37_NeverAsksToMoveZero ==
    \A id \in DOMAIN elevators :
        (/\ elevators[id].state.type = IDLE
         /\ RouteLength(elevators[id].route) > 0
         /\ ~shouldVisit(elevators[id].route, elevators[id].state.atFloor)) =>
            Abs(getNrFloorsToMove(elevators[id].route, elevators[id].state.atFloor)) = 1

(* An elevator that was given a ride before it was started has been added  *)
(* to the service, which runs it: it is Idle, one floor on its way, and    *)
(* its route still holds the floor.                                        *)
C37_Witness ==
    /\ last.op = "addElevator"
    /\ elevators[last.id].running
    /\ elevators[last.id].state.type = IDLE
    /\ elevators[last.id].timers = <<>>
    /\ RouteLength(elevators[last.id].route) > 0

----------------------------------------------------------------------------
(* Claims about an elevator whose rides never cease, checked under         *)
(* FairHold.                                                               *)

(* C38: every floor queued in the route of a running elevator is visited   *)
(* in the end, the doors opening there and the floor leaving the route,    *)
(* whatever rides are added afterwards, rides for the floor at which the   *)
(* doors are open among them.                                              *)
C38_NoStarvation ==
    \A g \in Floors :
        shouldVisit(elevators[Solo].route, g) ~>
            (DoorsAreOpenAt(g) /\ ~shouldVisit(elevators[Solo].route, g))

(* The doors were open at a floor while another floor was queued, the      *)
(* floor of the doors was asked for again, and when the doors closed they  *)
(* opened again at once: the other floor is still queued.                  *)
C38_Witness ==
    /\ last.op = "timer"
    /\ last.before.state.type = DOORS_OPEN
    /\ elevators[Solo].state.type = DOORS_OPEN
    /\ elevators[Solo].state.atFloor = last.before.state.atFloor
    /\ RouteLength(last.before.route) = 2
    /\ RouteFirst(last.before.route) # Some(last.before.state.atFloor)
    /\ RouteLength(elevators[Solo].route) = 1

----------------------------------------------------------------------------
(* Claims about the batched traversal, checked under SpecBatch.            *)

IsPlanner(l) == l.op = "planner"
IsLong(route) == RouteLength(route) > batchSize

(* C31: stopEarly is invoked exactly once after every stop that is         *)
(* appended, by the synchronous planners and by the batched traversal      *)
(* alike: the stops the caller's callback was called with are the stops    *)
(* returned, in their order, and once it has returned true no further stop *)
(* is appended and no further batch started.                               *)
C31_StopEarlyAfterEveryStop ==
    [][(IsPlanner(last') /\ last'.stopEarly.kind = "count") =>
          /\ last'.cb.calls = last'.stops
          /\ last'.cb.callCount = Len(last'.stops)
          /\ last'.stopEarly.limit # None =>
                Len(last'.stops) <= last'.stopEarly.limit[1]]_vars

(* The same for the synchronous planners only.                             *)
C31_SyncStopEarlyAfterEveryStop ==
    [][(IsPlanner(last') /\ last'.stopEarly.kind = "count" /\ last'.planner = "sync") =>
          /\ last'.cb.calls = last'.stops
          /\ last'.stopEarly.limit # None =>
                Len(last'.stops) <= last'.stopEarly.limit[1]]_vars

(* A batched traversal of a long route that its callback halted at the     *)
(* second stop.                                                            *)
C31_Witness ==
    /\ IsPlanner(last) /\ last.planner = "batched" /\ IsLong(last.before)
    /\ last.stopEarly = CountStopEarly(Some(2))
    /\ Len(last.stops) = 2 /\ last.cb.calls = last.stops
    /\ RouteLength(last.after) > 0

(* A batched traversal that appended more stops than one batch holds, with *)
(* a callback that never asks to stop.                                     *)
C31_SecondBatch ==
    /\ IsPlanner(last) /\ last.planner = "batched" /\ ~last.threw
    /\ last.stopEarly = CountStopEarly(None)
    /\ Len(last.stops) > batchSize

SyncOf(l) ==
    getOrderedStops(l.strategy, l.before, Some(l.currentFloor), l.targetFloor, NoStopEarly)
SameAsSync(l) ==
    /\ ~l.threw
    /\ l.stops = SyncOf(l).stops
    /\ l.after = SyncOf(l).route
IsBatchedRun(l) == IsPlanner(l) /\ l.planner = "batched" /\ l.stopEarly = NoStopEarly

(* C32: batchedGetOrderedStops(route, current, target?) returns the stops, *)
(* and leaves the route in the state, that getOrderedStops(route, current, *)
(* target?) does on an equal route, whatever the length of the route,      *)
(* with and without a target, the target at the current floor included.    *)
C32_BatchedEqualsSynchronous ==
    [][IsBatchedRun(last') => SameAsSync(last')]_vars

(* The same, for the routes that are not longer than the batch size.       *)
C32_ShortRoutes ==
    [][(IsBatchedRun(last') /\ ~IsLong(last'.before)) => SameAsSync(last')]_vars

(* The same, unless the target is the current floor.                       *)
C32_TargetElsewhere ==
    [][(IsBatchedRun(last') /\ last'.targetFloor # Some(last'.currentFloor))
          => SameAsSync(last')]_vars

(* The same, for the route itself and not a copy of it.                    *)
C32_OnTheRoute ==
    [][(IsBatchedRun(last') /\ last'.targetFloor # Some(last'.currentFloor)
           /\ last'.on = "route") => SameAsSync(last')]_vars

(* A batched traversal of a long route to a target elsewhere that took     *)
(* more than one batch and did what the synchronous one does.              *)
C32_Witness ==
    /\ IsBatchedRun(last) /\ IsLong(last.before) /\ SameAsSync(last)
    /\ last.targetFloor # None /\ last.targetFloor # Some(last.currentFloor)
    /\ Len(last.stops) > batchSize

IsBatched(l) == IsPlanner(l) /\ l.planner = "batched"

(* C35: the loop guard of the batched traversal has no false positives:    *)
(* on any route made by addRide, visitNow and copy, of any length, the     *)
(* batched traversal of either strategy ends normally and never throws     *)
(* the BUGBUG error.                                                       *)
C35_GuardNeverFiresOnReachableRoutes ==
    [][IsBatched(last') => ~last'.threw]_vars

(* The same for the traversals of the route itself, not of a copy.         *)
C35_GuardNeverFiresOnTheRoute ==
    [][(IsBatched(last') /\ last'.on = "route") => ~last'.threw]_vars

(* A batched traversal of a copy of a long route that carries the tag of a *)
(* dropoff, which ended normally by emptying the copy.                     *)
C35_Witness ==
    /\ IsBatched(last) /\ last.on = "copy()" /\ IsLong(last.before)
    /\ last.targetFloor = None /\ last.stopEarly = NoStopEarly
    /\ \E i \in 1..Len(last.before) : last.before[i].cf = 1
    /\ ~last.threw /\ last.after = <<>>

----------------------------------------------------------------------------
(* Claims about the service at a busy hour, checked under SpecBusy.        *)

Failed(c) == {k \in 1..Len(c.estimates) : c.estimates[k].threw}

(* The call with the estimates that threw counted as -1.                   *)
Forgiven(c) ==
    [c EXCEPT !.estimates = [k \in 1..Len(c.estimates) |->
                                IF c.estimates[k].threw
                                THEN [c.estimates[k] EXCEPT !.value = -1]
                                ELSE c.estimates[k]]]

(* C34: when the estimation of a candidate fails, addRide counts that      *)
(* elevator as one that cannot estimate (-1), evaluates the others and     *)
(* returns the id of the elevator it chooses among them: the shortest wait *)
(* of the estimates that did not fail, else the shortest route.            *)
C34_FailedEstimateCountsAsNoEstimate ==
    [][(IsRideFinish(last') /\ Failed(last'.call) # {}) =>
          /\ last'.outcome = "returned"
          /\ LET c == Forgiven(last'.call)
                 w == ShortestWait(c.candidates, c.estimates)
             IN last'.id = IF w # None THEN w[1] ELSE ShortestRoute(c.candidates)[1]]_vars

(* A call that waits on its estimates, one of which failed while another   *)
(* gave a time.                                                            *)
C34_Witness ==
    \E i \in 1..Len(calls) :
        /\ Failed(calls[i]) # {}
        /\ \E k \in 1..Len(calls[i].estimates) :
               ~calls[i].estimates[k].threw /\ calls[i].estimates[k].value > -1
============================================================================
